---------------------------- MODULE Spec2Model ----------------------------
(***************************************************************************)
(* A model of the flowstate-focus client core and of its edge functions.   *)
(*                                                                         *)
(*   - useNudgeGenerator   (src/src/hooks/useSimulatedAttention.ts)        *)
(*   - generate-nudge      (src/supabase/functions/generate-nudge/index.ts)*)
(*   - useYoloDetection    (src/src/hooks/useYoloDetection.ts)             *)
(*   - usePostureDetection (src/src/hooks/usePostureDetection.ts): the     *)
(*     camera life cycle, the simulated fallback, the score of a frame     *)
(*   - Session             (src/src/pages/Session.tsx): the timer and the  *)
(*     fused focus signal                                                  *)
(*   - useVisionPostureDetection                                           *)
(*     (src/src/hooks/useVisionPostureDetection.ts) and the score          *)
(*     adjustment of analyze-posture                                       *)
(*   - SessionProvider     (src/src/context/SessionContext.tsx)            *)
(*   - the start page (src/src/pages/Index.tsx), the reflection page       *)
(*     (src/unnamed/part_002) and reflection-insights                      *)
(*     (src/supabase/functions/reflection-insights/index.ts)               *)
(*                                                                         *)
(* Each component is a state machine of its own over its own variables;    *)
(* SpecNudge, SpecEdge, SpecYolo, SpecPosture, SpecSignal, SpecSession,    *)
(* SpecFusion, SpecFrame, SpecContext and SpecVision run one component     *)
(* each and leave the others in their initial state; SpecNudgeDeps is      *)
(* SpecNudge with a caller that also changes studyGoal and energyLevel;    *)
(* SpecApp runs the three pages from the start page to the reflection page *)
(* and back.                                                               *)
(*                                                                         *)
(* JavaScript is single threaded: one action is one task of the event      *)
(* loop (an event handler, a timer callback, the continuation of an await, *)
(* an animation-frame callback) together with the re-render and the React  *)
(* effects that the task's state changes cause.                            *)
(***************************************************************************)
EXTENDS Integers, Sequences, FiniteSets

(***************************************************************************)
(* Bounds of the model (not program constants).                            *)
(***************************************************************************)
\* isDistracted changes a run of the nudge generator may see
MaxChanges == 3
\* model clock ticks in one debounce period (a tick is 1000/DebounceTicks ms)
DebounceTicks == 2
\* isActive changes a run of the object detector may see
MaxToggles == 3
\* detections in one result of the object-detection model
MaxDetections == 2
\* startCamera calls a run of the posture hook may see
MaxStarts == 1
\* enableProcessing changes a run of the posture hook may see
MaxModeSwitches == 2
\* seconds an unlimited session is followed for
MaxUnlimitedSeconds == 360
\* distinct distracting labels one detection result may hold
MaxDistractingItems == 3
\* focus-score samples a run of the session context may hold
MaxSamples == 3
\* seconds of a session the walk through the three pages follows
MaxFlowSeconds == 2
\* startCamera calls a run of useVisionPostureDetection may make
MaxVisionStarts == 2
\* analyze-posture requests that may be in flight together
MaxVisionRequests == 2

VARIABLES
    \* ---- useNudgeGenerator ----
    nPhase,             \* "rendered": first render done, effects not yet run; "mounted"
    isDistracted,       \* the isDistracted prop
    nudge,              \* useState nudge
    isLoading,          \* useState isLoading
    prevDistractedRef,  \* useRef: Null, TRUE or FALSE
    debounceTimerRef,   \* useRef: 0 (null) or the id of the last timer set
    nTimers,            \* pending window.setTimeout callbacks: [id, val, left]
    reqs,               \* the generate-nudge requests issued, in order of issue
    lastSettled,        \* index in reqs of the request that settled last (0: none)
    lastOutcome,        \* what that request settled with
    lastSeen,           \* the isDistracted prop at the moment it settled
    nChanges,           \* number of isDistracted changes so far
    sinceChange,        \* ticks since the last isDistracted change (capped)
    reqsSinceChange,    \* requests issued since the last isDistracted change
    burstLen            \* changes in the current burst (each < 1 s after the previous)

VARIABLES
    \* ---- generate-nudge edge function (one request at a time) ----
    ePc,                \* "idle", "parsing", "fetching", "erroring", "reading", "done"
    eReq,               \* the request being served: [method, body]
    eKey,               \* whether LOVABLE_API_KEY is configured
    ePrompt,            \* the context put into the system prompt of the fetch
    eFailure,           \* the failure the handler met while serving ("none": none)
    eResp               \* the Response returned: [status, nudge, error]

edgeVars == <<ePc, eReq, eKey, ePrompt, eFailure, eResp>>

VARIABLES
    \* ---- useYoloDetection ----
    yMounted,           \* the component using the hook is mounted
    yIsActive,          \* the isActive prop
    yRefs,              \* the useRef cells: isActiveRef, detectorRef, isInitializingRef,
                        \* isDetectingRef, failureCountRef, intervalRef (0: null)
    yState,             \* useState state: phoneDetected, deskCluttered,
                        \* distractingItems, isLoading, isModelLoaded, error
    yTimers,            \* ids of the pending window.setTimeout(tick) callbacks
    yInferences,        \* detectObjects calls awaiting detector(frameData)
    yLoad,              \* the effect's async function awaiting pipeline():
                        \* "none", "live", or "cancelled" (its cancelled flag is set)
    yToggles            \* number of isActive changes so far

yoloVars == <<yMounted, yIsActive, yRefs, yState, yTimers, yInferences, yLoad, yToggles>>

VARIABLES
    \* ---- usePostureDetection ----
    pMounted,           \* the component using the hook is mounted
    enableProcessing,   \* the enableProcessing argument (enableProcessingRef mirrors it)
    pState,             \* useState state: postureScore (percent), isDistracted,
                        \* isUsingCamera, isCameraAvailable, isLoading, error,
                        \* faceDetected, poseDetected
    pRefs,              \* the useRef cells: faceLandmarkerRef, poseLandmarkerRef,
                        \* isInitializingRef, animationFrameRef (0: null),
                        \* streamRef (0: null), videoRef (0: null), canvasRef,
                        \* drawingUtilsRef
    pRafs,              \* pending requestAnimationFrame callbacks: [id, fn]
    pLoopTimers,        \* pending setTimeout(..., 100) callbacks of startCamera
    pLiveStreams,       \* the MediaStreams whose tracks are live
    pInit,              \* initializeMediaPipe in flight: [stage, caller]
    pCalls,             \* startCamera calls: call id -> "none", the await the call
                        \* is at ("init", "gum", "play"), or what it resolved to
                        \* ("true", "false")
    pSwitches           \* number of enableProcessing changes so far

postureVars == <<pMounted, enableProcessing, pState, pRefs, pRafs, pLoopTimers,
                 pLiveStreams, pInit, pCalls, pSwitches>>

nudgeVars == <<nPhase, isDistracted, nudge, isLoading, prevDistractedRef,
               debounceTimerRef, nTimers, reqs, lastSettled, lastOutcome,
               lastSeen, nChanges,
               sinceChange, reqsSinceChange, burstLen>>

VARIABLES
    \* ---- useSimulatedFallback (inside usePostureDetection) ----
    fbPostureScore,     \* its postureScore state, in percent
    fbIsDistracted      \* its isDistracted state

fallbackVars == <<fbPostureScore, fbIsDistracted>>

VARIABLES
    \* ---- Session (the page component, Session.tsx lines 478-913) ----
    sMounted,           \* the session view is mounted
    plannedDuration,    \* minutes, from the session context; 0: unlimited
    secondsRemaining,
    elapsedSeconds,
    sessionComplete,
    flowLevel,          \* "building", "flowing" or "deep"
    sIntervals,         \* active setInterval timers of the timer effect
    sessionDuration,    \* seconds, in the session context
    sTicks              \* history: timer ticks since the session started

sessionVars == <<sMounted, plannedDuration, secondsRemaining, elapsedSeconds,
                 sessionComplete, flowLevel, sIntervals, sessionDuration, sTicks>>

VARIABLES
    \* ---- Session: the fused focus signal (Session.tsx lines 489-547) ----
    detectionMode,       \* "posture" or "environment"
    mediaPipeScore,      \* postureScore returned by usePostureDetection, percent
    mediaPipeDistracted, \* isDistracted returned by usePostureDetection
    phoneDetected,       \* from useYoloDetection
    deskCluttered,       \* from useYoloDetection
    distractingCount,    \* distractingItems.length, from useYoloDetection
    fusedPostureScore,   \* postureScore computed in the render, percent
    fusedIsDistracted    \* isDistracted computed in the render

fusionVars == <<detectionMode, mediaPipeScore, mediaPipeDistracted, phoneDetected,
                deskCluttered, distractingCount, fusedPostureScore, fusedIsDistracted>>

VARIABLES
    \* ---- processFrame of usePostureDetection: the score of one frame ----
    frInput,            \* what the two landmarkers return for the frame
    frDone,             \* the frame has been processed
    frFaceScore,        \* faceScore, in thousandths
    frPoseScore,        \* poseScore, in thousandths
    frState             \* what setState writes: postureScore (thousandths),
                        \* isDistracted, faceDetected, poseDetected

frameVars == <<frInput, frDone, frFaceScore, frPoseScore, frState>>

VARIABLES
    \* ---- SessionProvider (with plannedDuration and sessionDuration above) ----
    studyGoal,          \* useState studyGoal: Null or a goal
    energyLevel,        \* useState energyLevel: Null or a level
    focusScores,        \* useState focusScores: samples in percent
    averageFocusScore,  \* calculateAverageFocus(focusScores) of the last render,
                        \* as the fraction num / den
    \* ---- the pages ----
    route,              \* the page shown: "index", "session" or "reflection"
    aiInsight,          \* Reflection: useState aiInsight
    isLoadingInsight,   \* Reflection: useState isLoadingInsight
    insightReq          \* the reflection-insights request of the mounted
                        \* Reflection: "none", "pending" or "settled"

contextVars == <<studyGoal, energyLevel, focusScores, averageFocusScore>>
reflectionVars == <<route, aiInsight, isLoadingInsight, insightReq>>
appVars == <<contextVars, reflectionVars>>

VARIABLES
    \* ---- useVisionPostureDetection ----
    vHook,              \* intervalRef (0: null), streamRef (0: null), the video's
                        \* srcObject (0: null) and state: postureScore (percent),
                        \* isDistracted, analysis, isCameraOn
    vStatus,            \* the rest of the state: isLoading, error
    vTimers,            \* live timers: [id, kind], kind "interval" or "timeout"
    vRequests,          \* analyze-posture requests in flight
    vCalls,             \* startCamera calls: call id -> "none", the await the call
                        \* is at ("gum", "play"), "done" or "failed"
    vStopped            \* history: stopCamera was called and startCamera not since

visionVars == <<vHook, vStatus, vTimers, vRequests, vCalls, vStopped>>

vars == <<nudgeVars, edgeVars, yoloVars, postureVars, fallbackVars, sessionVars,
          fusionVars, frameVars, appVars, visionVars>>

\* What an action of one component leaves alone: the other components.
nudgeOthers == <<edgeVars, yoloVars, postureVars, fallbackVars, sessionVars, fusionVars,
    frameVars, appVars, visionVars>>
edgeOthers == <<nudgeVars, yoloVars, postureVars, fallbackVars, sessionVars, fusionVars,
    frameVars, appVars, visionVars>>
yoloOthers == <<nudgeVars, edgeVars, postureVars, fallbackVars, sessionVars, fusionVars,
    frameVars, appVars, visionVars>>
postureOthers == <<nudgeVars, edgeVars, yoloVars, fallbackVars, sessionVars, fusionVars,
    frameVars, appVars, visionVars>>
fallbackOthers == <<nudgeVars, edgeVars, yoloVars, postureVars, sessionVars, fusionVars,
    frameVars, appVars, visionVars>>
sessionOuter == <<nudgeVars, edgeVars, yoloVars, postureVars, fallbackVars, fusionVars,
    frameVars, visionVars>>
sessionOthers == <<sessionOuter, appVars>>
fusionOthers == <<nudgeVars, edgeVars, yoloVars, postureVars, fallbackVars, sessionVars,
    frameVars, appVars, visionVars>>
frameOthers == <<nudgeVars, edgeVars, yoloVars, postureVars, fallbackVars, sessionVars,
    fusionVars, appVars, visionVars>>
visionOthers == <<nudgeVars, edgeVars, yoloVars, postureVars, fallbackVars, sessionVars,
    fusionVars, frameVars, appVars>>

Null == "null"
Undefined == "undefined"

Min(a, b) == IF a < b THEN a ELSE b

(***************************************************************************)
(* useNudgeGenerator                                                       *)
(***************************************************************************)

\* The two static sentences (the source's em dash is written "-").
FALLBACK_MESSAGES ==
    [distracted |-> "It looks like your posture dipped a bit - want to reset comfortably before continuing?",
     focused    |-> "Nice focus so far. Staying relaxed can help you keep this momentum."]

\* distracted ? FALLBACK_MESSAGES.distracted : FALLBACK_MESSAGES.focused
FallbackFor(distracted) ==
    IF distracted THEN FALLBACK_MESSAGES.distracted ELSE FALLBACK_MESSAGES.focused

\* The sentence the text service returns for the r-th request, when it returns
\* one: a different sentence for every request.
LlmText(r) == <<"t1", "t2", "t3", "t4", "t5", "t6", "t7", "t8">>[r]

\* What supabase.functions.invoke can settle with: an error result, a thrown
\* exception, or a body whose nudge field is absent, empty or a sentence.
OutcomeKinds == {"error", "throw", "data-no-nudge", "data-empty-nudge", "data-nudge"}

\* data?.nudge of the r-th request's body
BodyNudge(r, kind) ==
    CASE kind = "data-nudge" -> LlmText(r)
      [] kind = "data-empty-nudge" -> ""
      [] OTHER -> Undefined

\* JavaScript truthiness of data?.nudge
Truthy(s) == s \notin {Undefined, ""}

\* The nudge the settling request r writes (lines 76-89): data.nudge when invoke
\* gave no error and the body's nudge is truthy, else the fallback for the value
\* the request was issued with.
SettledNudge_NoTruthyCheck(r, distracted, kind) ==
    IF kind \notin {"error", "throw"} THEN BodyNudge(r, kind)
    ELSE FallbackFor(distracted)

SettledNudge_AlwaysFocused(r, distracted, kind) ==
    IF kind \notin {"error", "throw"} /\ Truthy(BodyNudge(r, kind))
    THEN BodyNudge(r, kind)
    ELSE FALLBACK_MESSAGES.focused

SettledNudge(r, distracted, kind) ==
    IF kind \notin {"error", "throw"} /\ Truthy(BodyNudge(r, kind))
    THEN BodyNudge(r, kind)
    ELSE FallbackFor(distracted)

\* clearTimeout(debounceTimerRef.current), guarded by the ref being set
ClearDebounce_Keep(timers, ref) == timers

ClearDebounce(timers, ref) ==
    IF ref /= 0 THEN {t \in timers : t.id /= ref} ELSE timers

\* A timer id that is neither pending nor held in the ref.
FreshTimerId == nChanges + 1

\* Variant of DebounceTimer whose timeout is due at once.
DebounceTimer_NoDelay(id, v) == [id |-> id, val |-> v, left |-> 0]

\* window.setTimeout(() => generateNudge(isDistracted), 1000) (lines 114-116):
\* the pending timeout, with the value its callback closed over.
DebounceTimer(id, v) == [id |-> id, val |-> v, left |-> DebounceTicks]

NudgeInit ==
    /\ nPhase = "rendered"
    /\ isDistracted \in BOOLEAN
    /\ nudge = FALLBACK_MESSAGES.focused
    /\ isLoading = FALSE
    /\ prevDistractedRef = Null
    /\ debounceTimerRef = 0
    /\ nTimers = {}
    /\ reqs = <<>>
    /\ lastSettled = 0
    /\ lastOutcome = Null
    /\ lastSeen = FALSE
    /\ nChanges = 0
    /\ sinceChange = DebounceTicks + 1
    /\ reqsSinceChange = 0
    /\ burstLen = 0

\* generateNudge(distracted) up to its await: setIsLoading(true), request sent.
GenerateNudge(distracted) ==
    /\ isLoading' = TRUE
    /\ reqs' = Append(reqs, [distracted |-> distracted, status |-> "inflight"])
    /\ reqsSinceChange' = reqsSinceChange + 1

\* First run of the effect (lines 98-103): prevDistractedRef is null.
NudgeMount ==
    /\ nPhase = "rendered"
    /\ nPhase' = "mounted"
    /\ prevDistractedRef' = isDistracted
    /\ GenerateNudge(isDistracted)
    /\ UNCHANGED <<isDistracted, nudge, debounceTimerRef, nTimers, lastSettled,
                   lastOutcome, lastSeen,
                   nChanges, sinceChange, burstLen>>
    /\ UNCHANGED nudgeOthers

\* The caller passes a new isDistracted: the previous effect's cleanup runs
\* (lines 119-123), then the effect (lines 106-117).
SetDistracted(v) ==
    /\ nPhase = "mounted"
    /\ v /= isDistracted
    /\ nChanges < MaxChanges
    /\ isDistracted' = v
    /\ nChanges' = nChanges + 1
    /\ LET afterCleanup == ClearDebounce(nTimers, debounceTimerRef)
       IN IF prevDistractedRef /= v
          THEN /\ prevDistractedRef' = v
               /\ debounceTimerRef' = FreshTimerId
               /\ nTimers' = ClearDebounce(afterCleanup, debounceTimerRef)
                               \cup {DebounceTimer(FreshTimerId, v)}
          ELSE /\ nTimers' = afterCleanup
               /\ UNCHANGED <<prevDistractedRef, debounceTimerRef>>
    /\ burstLen' = IF sinceChange < DebounceTicks THEN burstLen + 1 ELSE 1
    /\ sinceChange' = 0
    /\ reqsSinceChange' = 0
    /\ UNCHANGED <<nPhase, nudge, isLoading, reqs, lastSettled, lastOutcome, lastSeen>>
    /\ UNCHANGED nudgeOthers

\* The debounce timer fires (lines 114-116): generateNudge(isDistracted) with the
\* value the effect closed over.
DebounceFire ==
    \E t \in nTimers :
        /\ t.left = 0
        /\ nTimers' = nTimers \ {t}
        /\ GenerateNudge(t.val)
        /\ UNCHANGED <<nPhase, isDistracted, nudge, prevDistractedRef,
                       debounceTimerRef, lastSettled, lastOutcome, lastSeen,
                       nChanges, sinceChange, burstLen>>
        /\ UNCHANGED nudgeOthers

\* The invoke of request r settles with outcome o (lines 76-92).
NudgeSettle(r, o) ==
    /\ reqs[r].status = "inflight"
    /\ nudge' = SettledNudge(r, reqs[r].distracted, o)
    /\ isLoading' = FALSE
    /\ reqs' = [reqs EXCEPT ![r].status = IF o = "data-nudge" THEN "ok" ELSE "failed"]
    /\ lastSettled' = r
    /\ lastOutcome' = o
    /\ lastSeen' = isDistracted
    /\ UNCHANGED <<nPhase, isDistracted, prevDistractedRef, debounceTimerRef,
                   nTimers, nChanges, sinceChange, reqsSinceChange, burstLen>>
    /\ UNCHANGED nudgeOthers

\* Time passes by one tick; a timer that is due fires before time moves on.
NudgeTick ==
    /\ nPhase = "mounted"
    /\ \A t \in nTimers : t.left > 0
    /\ nTimers' = {[t EXCEPT !.left = t.left - 1] : t \in nTimers}
    /\ sinceChange' = Min(sinceChange + 1, DebounceTicks + 1)
    /\ UNCHANGED <<nPhase, isDistracted, nudge, isLoading, prevDistractedRef,
                   debounceTimerRef, reqs, lastSettled, lastOutcome, lastSeen,
                   nChanges, reqsSinceChange,
                   burstLen>>
    /\ UNCHANGED nudgeOthers

\* The caller passes another studyGoal or energyLevel: generateNudge is
\* re-created (line 93), so the previous effect's cleanup runs (lines 119-123)
\* and then the effect (lines 98-117), which finds isDistracted unchanged.
NudgeDepsChange ==
    /\ nPhase = "mounted"
    /\ nTimers' = ClearDebounce(nTimers, debounceTimerRef)
    /\ UNCHANGED <<nPhase, isDistracted, nudge, isLoading, prevDistractedRef,
                   debounceTimerRef, reqs, lastSettled, lastOutcome, lastSeen,
                   nChanges, sinceChange, reqsSinceChange, burstLen>>
    /\ UNCHANGED nudgeOthers

NextNudge ==
    \/ NudgeMount
    \/ \E v \in BOOLEAN : SetDistracted(v)
    \/ DebounceFire
    \/ \E r \in 1..Len(reqs) : \E o \in OutcomeKinds : NudgeSettle(r, o)
    \/ NudgeTick

\* The hook with a caller that also changes studyGoal and energyLevel.
NextNudgeDeps ==
    \/ NextNudge
    \/ NudgeDepsChange


(***************************************************************************)
(* Claims about useNudgeGenerator                                          *)
(***************************************************************************)

LastReq == reqs[Len(reqs)]

\* The nudge request r left or will leave on display, once settled.
ResultOf(r) ==
    IF reqs[r].status = "ok" THEN LlmText(r) ELSE FallbackFor(reqs[r].distracted)

NoneInFlight == \A r \in 1..Len(reqs) : reqs[r].status /= "inflight"

\* C1: after the initial request, a burst of isDistracted changes, each less
\* than 1 second after the previous one, issues no request while the burst
\* lasts and exactly one request 1 second (DebounceTicks ticks) after its last
\* change, carrying the value of that last change.
C1_DebounceOneRequest ==
    (nPhase = "mounted" /\ nChanges > 0) =>
        /\ reqsSinceChange <= 1
        /\ sinceChange < DebounceTicks =>
              /\ reqsSinceChange = 0
              /\ nTimers = {[id |-> debounceTimerRef, val |-> isDistracted,
                             left |-> DebounceTicks - sinceChange]}
        /\ sinceChange = DebounceTicks =>
              \/ /\ reqsSinceChange = 0
                 /\ nTimers = {[id |-> debounceTimerRef, val |-> isDistracted, left |-> 0]}
              \/ /\ reqsSinceChange = 1
                 /\ nTimers = {}
                 /\ LastReq.distracted = isDistracted
        /\ sinceChange > DebounceTicks =>
              /\ reqsSinceChange = 1
              /\ nTimers = {}
              /\ LastReq.distracted = isDistracted

\* A burst true -> false -> true, 1 second after its last change: one request
\* besides the initial one, and it carries true.
C1_Witness ==
    /\ burstLen >= 3
    /\ isDistracted
    /\ sinceChange = DebounceTicks
    /\ reqsSinceChange = 1
    /\ Len(reqs) = 2
    /\ LastReq.distracted

\* C2: once all requests have resolved, the nudge on display is the result of
\* the request issued last; an earlier request's response or fallback never
\* overwrites a later one's.
C2_LatestRequestWins ==
    (Len(reqs) >= 2 /\ NoneInFlight) => nudge = ResultOf(Len(reqs))

\* C3: no request carries the value the request before it carried (a value
\* equal to the one last acted upon never triggers a request).
C3_NoRepeatOfActedValue ==
    \A r \in 2..Len(reqs) : reqs[r].distracted /= reqs[r - 1].distracted

\* C28: the first run of the effect issues one request at once, with no
\* timeout involved, carrying the isDistracted value of that render; every
\* other request is issued after a change of isDistracted, DebounceTicks ticks
\* (1 second) after the latest change and as the first request since it.
C28_FirstRequestImmediate ==
    /\ [](nPhase = "rendered" => reqs = <<>>)
    /\ []((nPhase = "mounted" /\ nChanges = 0) =>
              /\ Len(reqs) = 1
              /\ reqs[1].distracted = isDistracted
              /\ nTimers = {}
              /\ debounceTimerRef = 0)
    /\ [][Len(reqs') /= Len(reqs) =>
              /\ Len(reqs') = Len(reqs) + 1
              /\ \/ /\ nPhase = "rendered"
                    /\ reqs = <<>>
                    /\ reqs'[1].distracted = isDistracted
                 \/ /\ nPhase = "mounted"
                    /\ reqs /= <<>>
                    /\ nChanges > 0
                    /\ sinceChange = DebounceTicks
                    /\ reqsSinceChange = 0]_vars

\* The initial request carried false; isDistracted then changed to true and the
\* second request was issued 1 second later.
C28_Witness ==
    /\ Len(reqs) = 2
    /\ ~reqs[1].distracted
    /\ reqs[2].distracted
    /\ nChanges = 1
    /\ sinceChange = DebounceTicks

\* C35: isLoading is true exactly in the states in which a generate-nudge
\* request is in flight.
C35_LoadingIffInFlight ==
    isLoading <=> (\E r \in 1..Len(reqs) : reqs[r].status = "inflight")

\* C36: once more than 1 second has passed since the latest change of
\* isDistracted, a request carrying the new value has been issued since that
\* change, also when studyGoal or energyLevel changed in between.
C36_QuietChangeIsRequested ==
    (nPhase = "mounted" /\ nChanges > 0 /\ sinceChange > DebounceTicks) =>
        /\ reqsSinceChange >= 1
        /\ LastReq.distracted = isDistracted

C6_NudgeNeverEmpty == nudge \notin {"", Undefined, Null}

\* A body with an empty nudge has just been applied.
C6_Witness ==
    /\ lastSettled > 0
    /\ lastOutcome = "data-empty-nudge"
    /\ nudge = FallbackFor(reqs[lastSettled].distracted)


(***************************************************************************)
(* The generate-nudge edge function                                        *)
(***************************************************************************)

\* The edge function's own copy of the two static sentences.
EDGE_FALLBACK_MESSAGES ==
    [distracted |-> "It looks like your posture dipped a bit - want to reset comfortably before continuing?",
     focused    |-> "Nice focus so far. Staying relaxed can help you keep this momentum."]

\* Request bodies: JSON that does not parse, or an object with the three fields
\* (studyGoal and energyLevel may be null).
Malformed ==
    [parses |-> FALSE, isDistracted |-> FALSE, studyGoal |-> Null, energyLevel |-> Null]

RequestBodies ==
    {Malformed} \cup [parses : {TRUE}, isDistracted : BOOLEAN,
                      studyGoal : {Null, "reading"}, energyLevel : {Null, "low"}]

\* What the fetch of the text service settles with: a thrown network error or
\* a response with an HTTP status.
FetchOutcomes == {"throw", "429", "402", "500", "200"}

\* What reading the body of a 2xx response gives: a JSON parse error, no
\* choices[0].message.content, content of white space only, or a sentence.
CompletionBodies == {"invalid-json", "no-content", "blank-content", "sentence"}

NoResponse == [status |-> 0, nudge |-> Undefined, error |-> FALSE]

\* isDistracted ? FALLBACK_MESSAGES.distracted : FALLBACK_MESSAGES.focused
EdgeFallbackFor(distracted) ==
    IF distracted THEN EDGE_FALLBACK_MESSAGES.distracted
    ELSE EDGE_FALLBACK_MESSAGES.focused

\* new Response(JSON.stringify({ nudge }), { headers }): the status defaults to 200
JsonResponse(text) == [status |-> 200, nudge |-> text, error |-> FALSE]

\* The catch block's Response (lines 127-135): isDistracted is out of scope there.
CatchResponse ==
    [status |-> 200, nudge |-> EDGE_FALLBACK_MESSAGES.focused, error |-> TRUE]

\* data.choices?.[0]?.message?.content?.trim() || fallback (lines 117-118)
CompletionNudge(b, distracted) ==
    IF b = "sentence" THEN "generated sentence" ELSE EdgeFallbackFor(distracted)

NoPrompt == [goal |-> Null, energy |-> Null, state |-> Null]

\* The context lines of the system prompt (lines 61-63).
SystemPromptContext(body) ==
    [goal   |-> IF body.studyGoal = Null THEN "general study" ELSE body.studyGoal,
     energy |-> IF body.energyLevel = Null THEN "medium" ELSE body.energyLevel,
     state  |-> IF body.isDistracted THEN "posture has dipped slightly"
                ELSE "good focus and posture"]

EdgeInit ==
    /\ ePc = "idle"
    /\ ePrompt = NoPrompt
    /\ eReq = [method |-> "none", body |-> Malformed]
    /\ eKey = FALSE
    /\ eFailure = "none"
    /\ eResp = NoResponse

EdgeRespond(resp, failure) ==
    /\ ePc' = "done"
    /\ eResp' = resp
    /\ eFailure' = failure

\* A request arrives (lines 29-36): OPTIONS is answered at once, anything else
\* awaits req.json().
EdgeReceive(method, body, key) ==
    /\ ePc = "idle"
    /\ eReq' = [method |-> method, body |-> body]
    /\ eKey' = key
    /\ ePrompt' = NoPrompt
    /\ IF method = "OPTIONS"
       THEN EdgeRespond([status |-> 200, nudge |-> Undefined, error |-> FALSE], "none")
       ELSE /\ ePc' = "parsing"
            /\ eFailure' = "none"
            /\ eResp' = NoResponse
    /\ UNCHANGED edgeOthers

\* req.json() settles (lines 36-83): a parse error goes to the catch block; a
\* missing key answers with the fallback; else the text service is called.
EdgeParsed ==
    /\ ePc = "parsing"
    /\ IF ~eReq.body.parses
       THEN EdgeRespond(CatchResponse, "request-parse-exception")
            /\ UNCHANGED ePrompt
       ELSE IF ~eKey
       THEN EdgeRespond(JsonResponse(EdgeFallbackFor(eReq.body.isDistracted)),
                        "missing-api-key")
            /\ UNCHANGED ePrompt
       ELSE /\ ePc' = "fetching"
            /\ ePrompt' = SystemPromptContext(eReq.body)
            /\ UNCHANGED <<eFailure, eResp>>
    /\ UNCHANGED <<eReq, eKey>>
    /\ UNCHANGED edgeOthers

\* The fetch settles (lines 67-116).
EdgeFetchSettle(o) ==
    /\ ePc = "fetching"
    /\ CASE o = "throw" -> EdgeRespond(CatchResponse, "fetch-exception")
         [] o \in {"429", "402"} ->
              EdgeRespond(JsonResponse(EdgeFallbackFor(eReq.body.isDistracted)),
                          "status-" \o o)
         [] o = "500" -> /\ ePc' = "erroring"
                         /\ UNCHANGED <<eFailure, eResp>>
         [] OTHER -> /\ ePc' = "reading"
                     /\ UNCHANGED <<eFailure, eResp>>
    /\ UNCHANGED <<eReq, eKey, ePrompt>>
    /\ UNCHANGED edgeOthers

\* await response.text() of a non-2xx response settles (lines 106-113).
EdgeErrorTextRead(ok) ==
    /\ ePc = "erroring"
    /\ IF ok
       THEN EdgeRespond(JsonResponse(EdgeFallbackFor(eReq.body.isDistracted)),
                        "status-other")
       ELSE EdgeRespond(CatchResponse, "error-text-exception")
    /\ UNCHANGED <<eReq, eKey, ePrompt>>
    /\ UNCHANGED edgeOthers

\* await response.json() of a 2xx response settles (lines 116-125).
EdgeCompletionRead(b) ==
    /\ ePc = "reading"
    /\ IF b = "invalid-json"
       THEN EdgeRespond(CatchResponse, "completion-parse-exception")
       ELSE EdgeRespond(JsonResponse(CompletionNudge(b, eReq.body.isDistracted)),
                        IF b = "sentence" THEN "none" ELSE "empty-completion")
    /\ UNCHANGED <<eReq, eKey, ePrompt>>
    /\ UNCHANGED edgeOthers

\* The response has been sent; the function waits for the next request.
EdgeNextRequest ==
    /\ ePc = "done"
    /\ ePc' = "idle"
    /\ UNCHANGED <<eReq, eKey, ePrompt, eFailure, eResp>>
    /\ UNCHANGED edgeOthers

NextEdge ==
    \/ \E m \in {"OPTIONS", "POST"} : \E b \in RequestBodies : \E k \in BOOLEAN :
           EdgeReceive(m, b, k)
    \/ EdgeParsed
    \/ \E o \in FetchOutcomes : EdgeFetchSettle(o)
    \/ \E ok \in BOOLEAN : EdgeErrorTextRead(ok)
    \/ \E b \in CompletionBodies : EdgeCompletionRead(b)
    \/ EdgeNextRequest

(***************************************************************************)
(* Claims about the generate-nudge edge function                           *)
(***************************************************************************)

\* The isDistracted value of the request being served (a body that does not
\* parse carries none: undefined, which selects the focused sentence).
RequestDistracted == eReq.body.parses /\ eReq.body.isDistracted

\* C5: for every failure of the text service the handler meets (missing key,
\* 429, 402, other non-2xx, empty completion, an exception while parsing the
\* request or calling the service) the answer is HTTP 200 with the static
\* sentence selected by the request's isDistracted, whatever the failure.
C5_UniformFallback ==
    (ePc = "done" /\ eFailure /= "none") =>
        /\ eResp.status = 200
        /\ eResp.nudge = EdgeFallbackFor(RequestDistracted)


(***************************************************************************)
(* useYoloDetection                                                        *)
(***************************************************************************)

\* CONFIDENCE_THRESHOLD = 0.3, in percent
CONFIDENCE_THRESHOLD == 30
MAX_RETRIES == 2

\* Labels are sequences of lower-case words; label.includes(entry) is entry
\* occurring in label as a run of whole words, which on the labels of the
\* detection model is what the substring test gives.
Includes(label, entry) ==
    \E i \in 0..(Len(label) - Len(entry)) :
        \A j \in 1..Len(entry) : label[i + j] = entry[j]

PHONE_LABELS == {<<"cell", "phone">>, <<"mobile", "phone">>, <<"phone">>, <<"remote">>}

CLUTTER_LABELS ==
    {<<"pizza">>, <<"donut">>, <<"cake">>, <<"sandwich">>, <<"hot", "dog">>, <<"apple">>,
     <<"orange">>, <<"banana">>, <<"cup">>, <<"bottle">>, <<"wine", "glass">>, <<"bowl">>,
     <<"fork">>, <<"knife">>, <<"spoon">>}

STRONG_FOOD_LABELS == {<<"pizza">>, <<"donut">>, <<"cake">>, <<"sandwich">>}

DISTRACTING_OBJECTS ==
    PHONE_LABELS \cup CLUTTER_LABELS \cup
    {<<"book">>, <<"tv">>, <<"laptop">>, <<"mouse">>, <<"keyboard">>, <<"scissors">>,
     <<"teddy", "bear">>, <<"sports", "ball">>, <<"frisbee">>, <<"handbag">>,
     <<"backpack">>, <<"suitcase">>}

MatchesAny(label, list) == \E e \in list : Includes(label, e)

\* The detections the model may report in one result: a label and a score in
\* percent.
DetectorLabels == {<<"cell", "phone">>, <<"cup">>, <<"pizza">>}
DetectorScores == {20, 50}
Detections == [label : DetectorLabels, score : DetectorScores]

RECURSIVE SeqsUpTo(_, _)
SeqsUpTo(S, n) ==
    IF n = 0 THEN {<<>>}
    ELSE LET shorter == SeqsUpTo(S, n - 1)
         IN shorter \cup {Append(q, x) : q \in {t \in shorter : Len(t) = n - 1}, x \in S}

DetectorResults == SeqsUpTo(Detections, MaxDetections)

\* detectedLabels (lines 186-188): the labels with score >= CONFIDENCE_THRESHOLD,
\* in order, duplicates kept
DetectedLabels(results) ==
    SelectSeq([i \in 1..Len(results) |-> results[i]],
              LAMBDA d : d.score >= CONFIDENCE_THRESHOLD)

LabelsOf(results) ==
    LET kept == DetectedLabels(results) IN [i \in 1..Len(kept) |-> kept[i].label]

\* lines 190-192
PhoneDetected(results) ==
    \E i \in 1..Len(LabelsOf(results)) : MatchesAny(LabelsOf(results)[i], PHONE_LABELS)

\* clutterItems (lines 194-196)
ClutterItems(results) ==
    SelectSeq(LabelsOf(results), LAMBDA l : MatchesAny(l, CLUTTER_LABELS))

\* lines 197-198
DeskCluttered(results) ==
    \/ Len(ClutterItems(results)) >= 2
    \/ \E i \in 1..Len(LabelsOf(results)) :
           MatchesAny(LabelsOf(results)[i], STRONG_FOOD_LABELS)

\* lines 200-204: the distinct distracting labels
DistractingItems(results) ==
    {LabelsOf(results)[i] : i \in {k \in 1..Len(LabelsOf(results)) :
                                     MatchesAny(LabelsOf(results)[k], DISTRACTING_OBJECTS)}}

YoloInit ==
    /\ yMounted = TRUE
    /\ yIsActive = FALSE
    /\ yRefs = [isActiveRef |-> FALSE, detectorRef |-> FALSE, isInitializingRef |-> FALSE,
                isDetectingRef |-> FALSE, failureCountRef |-> 0, intervalRef |-> 0]
    /\ yState = [phoneDetected |-> FALSE, deskCluttered |-> FALSE, distractingItems |-> {},
                 isLoading |-> FALSE, isModelLoaded |-> FALSE, error |-> Null]
    /\ yTimers = {}
    /\ yInferences = 0
    /\ yLoad = "none"
    /\ yToggles = 0

\* The refs, the pending timers and the inferences in flight, as one value M
\* that the hook's functions take and return.
YoloMachine == [refs |-> yRefs, timers |-> yTimers, inferences |-> yInferences]

\* A timer id that is neither pending nor held in intervalRef.
FreshYoloTimer(M) ==
    CHOOSE i \in 1..(Cardinality(M.timers) + 2) : i \notin M.timers /\ i /= M.refs.intervalRef

\* if (intervalRef.current) { clearTimeout(intervalRef.current); intervalRef.current = null }
ClearInterval(M) ==
    IF M.refs.intervalRef /= 0
    THEN [M EXCEPT !.timers = @ \ {M.refs.intervalRef}, !.refs.intervalRef = 0]
    ELSE M

\* Variant of detectObjects that does not look at isDetectingRef.
DetectObjectsBegin_NoBusyCheck(M, frame) ==
    IF ~M.refs.detectorRef \/ ~M.refs.isActiveRef THEN M
    ELSE IF ~frame THEN M
    ELSE [M EXCEPT !.refs.isDetectingRef = TRUE, !.inferences = @ + 1]

\* detectObjects up to its first await (lines 157-165). With no detector, an
\* inactive ref or a detection running it returns at once; with no frame it
\* sets and clears isDetectingRef; else the inference is started.
DetectObjectsBegin(M, frame) ==
    IF ~M.refs.detectorRef \/ ~M.refs.isActiveRef \/ M.refs.isDetectingRef THEN M
    ELSE IF ~frame THEN M
    ELSE [M EXCEPT !.refs.isDetectingRef = TRUE, !.inferences = @ + 1]

\* tick after its await detectObjects() (lines 238-240)
TickReschedule_Always(M) ==
    [M EXCEPT !.refs.intervalRef = FreshYoloTimer(M),
              !.timers = @ \cup {FreshYoloTimer(M)}]

TickReschedule(M) ==
    IF M.refs.isActiveRef /\ M.refs.detectorRef
    THEN [M EXCEPT !.refs.intervalRef = FreshYoloTimer(M),
                   !.timers = @ \cup {FreshYoloTimer(M)}]
    ELSE M

\* tick (lines 236-241), as far as it runs in one task: when detectObjects
\* awaits the detector, tick resumes only when the inference settles.
Tick(M, frame) ==
    LET M1 == DetectObjectsBegin(M, frame)
    IN IF M1.inferences > M.inferences THEN M1 ELSE TickReschedule(M1)

\* setState is dropped once the component is unmounted
YoloSetState(new) == yState' = IF yMounted THEN new ELSE yState

YoloApply(M) ==
    /\ yRefs' = M.refs
    /\ yTimers' = M.timers
    /\ yInferences' = M.inferences

\* captureFrame (lines 136-152): a frame only if the video element exists and
\* is ready. The video belongs to the session's camera, which exists while
\* isActive (the camera being in use) holds.
FrameChoices == IF yIsActive /\ yMounted THEN BOOLEAN ELSE {FALSE}

\* The cleanup of the start/stop effect (lines 266-272), when its last run
\* returned one (isActive was true).
StartStopCleanup(M) == IF yIsActive THEN ClearInterval(M) ELSE M

CancelLoad == IF yIsActive /\ yLoad = "live" THEN "cancelled" ELSE yLoad

\* isActive changes: the cleanup of the start/stop effect, the isActiveRef
\* sync effect (lines 83-85), the start/stop effect (lines 248-264).
YoloSetActive(b, frame) ==
    /\ yMounted
    /\ b /= yIsActive
    /\ yToggles < MaxToggles
    /\ yToggles' = yToggles + 1
    /\ yIsActive' = b
    /\ LET M0 == StartStopCleanup(YoloMachine)
           M1 == [M0 EXCEPT !.refs.isActiveRef = b]
       IN IF ~b
          THEN /\ YoloApply(ClearInterval(M1))
               /\ yLoad' = CancelLoad
               /\ UNCHANGED yState
          ELSE IF M1.refs.detectorRef
          THEN \* ready without awaiting: startLoop()
               /\ YoloApply(Tick(M1, frame))
               /\ yLoad' = CancelLoad
               /\ UNCHANGED yState
          ELSE IF M1.refs.isInitializingRef
          THEN \* initializeModel() returns true at once; startLoop() finds no detector
               /\ YoloApply(Tick(M1, frame))
               /\ yLoad' = CancelLoad
               /\ UNCHANGED yState
          ELSE \* initializeModel() up to await pipeline(...)
               /\ YoloApply([M1 EXCEPT !.refs.isInitializingRef = TRUE])
               /\ yLoad' = "live"
               /\ YoloSetState([yState EXCEPT !.isLoading = TRUE, !.error = Null])
    /\ UNCHANGED yMounted
    /\ UNCHANGED yoloOthers

\* pipeline(...) settles (lines 113-132), then the effect's async function
\* resumes (lines 261-263): startLoop() unless cancelled.
YoloLoadSettle(ok, frame) ==
    /\ yLoad /= "none"
    /\ yLoad' = "none"
    /\ LET M0 == YoloMachine
           loaded == [M0 EXCEPT !.refs.detectorRef = TRUE, !.refs.isInitializingRef = FALSE]
           failed == [M0 EXCEPT !.refs.isInitializingRef = FALSE]
       IN IF ok
          THEN /\ YoloSetState([yState EXCEPT !.isLoading = FALSE, !.isModelLoaded = TRUE])
               /\ YoloApply(IF yLoad = "live" THEN Tick(loaded, frame) ELSE loaded)
          ELSE /\ YoloSetState([yState EXCEPT !.isLoading = FALSE,
                                              !.error = "Failed to load detection model"])
               /\ YoloApply(failed)
    /\ UNCHANGED <<yMounted, yIsActive, yToggles>>
    /\ UNCHANGED yoloOthers

\* A pending setTimeout(tick, DETECTION_INTERVAL_MS) fires.
YoloTimerFire(id, frame) ==
    /\ id \in yTimers
    /\ YoloApply(Tick([YoloMachine EXCEPT !.timers = @ \ {id}], frame))
    /\ UNCHANGED <<yMounted, yIsActive, yState, yLoad, yToggles>>
    /\ UNCHANGED yoloOthers

\* finally { isDetectingRef.current = false } and the return to tick
DetectObjectsEnd(M) ==
    TickReschedule([M EXCEPT !.refs.isDetectingRef = FALSE, !.inferences = @ - 1])

\* The catch block of detectObjects (lines 221-228), on the refs
CatchFailure_NeverDisable(refs) ==
    [refs EXCEPT !.failureCountRef = @ + 1]

CatchFailure(refs) ==
    IF refs.failureCountRef + 1 >= MAX_RETRIES
    THEN [refs EXCEPT !.failureCountRef = @ + 1, !.isActiveRef = FALSE]
    ELSE [refs EXCEPT !.failureCountRef = @ + 1]

\* Variant of the reset that leaves the counter as it is.
ResetFailures_Keep(refs) == refs

\* failureCountRef.current = 0 (line 171)
ResetFailures(refs) == [refs EXCEPT !.failureCountRef = 0]

\* detector(frameData) resolves with an array (lines 169-212).
YoloInferenceResults(results) ==
    /\ yInferences > 0
    /\ YoloSetState([yState EXCEPT !.phoneDetected = PhoneDetected(results),
                                   !.deskCluttered = DeskCluttered(results),
                                   !.distractingItems = DistractingItems(results)])
    /\ YoloApply(DetectObjectsEnd([YoloMachine EXCEPT !.refs = ResetFailures(@)]))
    /\ UNCHANGED <<yMounted, yIsActive, yLoad, yToggles>>
    /\ UNCHANGED yoloOthers

\* detector(frameData) resolves with something that is no array (line 169).
YoloInferenceNotArray ==
    /\ yInferences > 0
    /\ YoloApply(DetectObjectsEnd(YoloMachine))
    /\ UNCHANGED <<yMounted, yIsActive, yState, yLoad, yToggles>>
    /\ UNCHANGED yoloOthers

\* detector(frameData) rejects (lines 220-232).
YoloInferenceThrows ==
    /\ yInferences > 0
    /\ YoloSetState(IF yRefs.failureCountRef + 1 >= MAX_RETRIES
                    THEN [yState EXCEPT !.error = "Object detection paused after repeated errors."]
                    ELSE yState)
    /\ YoloApply(DetectObjectsEnd([YoloMachine EXCEPT !.refs = CatchFailure(@)]))
    /\ UNCHANGED <<yMounted, yIsActive, yLoad, yToggles>>
    /\ UNCHANGED yoloOthers

\* The component unmounts: the cleanup of the start/stop effect, then the
\* unmount cleanup (lines 277-283), whose clearTimeout(intervalRef.current = null)
\* nulls the ref and clears nothing. isActiveRef is left as it is.
YoloUnmount ==
    /\ yMounted
    /\ yMounted' = FALSE
    /\ YoloApply([StartStopCleanup(YoloMachine) EXCEPT !.refs.intervalRef = 0])
    /\ yLoad' = CancelLoad
    /\ UNCHANGED <<yIsActive, yState, yToggles>>
    /\ UNCHANGED yoloOthers

NextYolo ==
    \/ \E b \in BOOLEAN : \E f \in FrameChoices : YoloSetActive(b, f)
    \/ \E ok \in BOOLEAN : \E f \in FrameChoices : YoloLoadSettle(ok, f)
    \/ \E id \in yTimers : \E f \in FrameChoices : YoloTimerFire(id, f)
    \/ \E res \in DetectorResults : YoloInferenceResults(res)
    \/ YoloInferenceNotArray
    \/ YoloInferenceThrows
    \/ YoloUnmount

(***************************************************************************)
(* Claims about useYoloDetection                                           *)
(***************************************************************************)

\* What a detection result writes into the hook's state.
DetectionOf(st) == <<st.phoneDetected, st.deskCluttered, st.distractingItems>>

TornDown == ~yIsActive \/ ~yMounted

\* C7: once MAX_RETRIES consecutive inferences have failed, the detector shows
\* an error and attempts no further inference for the rest of the session,
\* whatever isActive toggles follow.
C7_DisabledForSession ==
    (yMounted /\ yRefs.failureCountRef >= MAX_RETRIES) =>
        /\ yState.error /= Null
        /\ yInferences = 0

\* C8: while the camera is disabled or the view unmounted, no step of the
\* detector schedules a tick or changes the detection result in its state.
C8_NoStragglerAfterTeardown ==
    [][(TornDown /\ TornDown') =>
           /\ yTimers' \subseteq yTimers
           /\ DetectionOf(yState') = DetectionOf(yState)]_vars


\* C32: an inference that resolves with an array sets the failure counter to
\* 0; a rejected inference adds 1 to it, and turns polling off (isActiveRef
\* false, error shown) exactly when the counter was not 0, that is when an
\* earlier failure has had no successful inference after it; no other step
\* changes the counter.
C32_ConsecutiveFailuresOnly ==
    /\ [][(\E res \in DetectorResults : YoloInferenceResults(res)) =>
              yRefs'.failureCountRef = 0]_vars
    /\ [][YoloInferenceThrows =>
              /\ yRefs'.failureCountRef = yRefs.failureCountRef + 1
              /\ yRefs.failureCountRef = 0 =>
                     /\ yRefs'.isActiveRef = yRefs.isActiveRef
                     /\ yState'.error = yState.error
              /\ yRefs.failureCountRef >= 1 =>
                     /\ ~yRefs'.isActiveRef
                     /\ yMounted => yState'.error /= Null]_vars
    /\ [][yRefs'.failureCountRef /= yRefs.failureCountRef =>
              \/ YoloInferenceThrows
              \/ \E res \in DetectorResults : YoloInferenceResults(res)]_vars

\* Polling was turned off by the second of two failures, after an inference
\* that had succeeded and found a phone.
C32_Witness ==
    /\ yMounted
    /\ yIsActive
    /\ yRefs.failureCountRef = MAX_RETRIES
    /\ ~yRefs.isActiveRef
    /\ yState.phoneDetected
    /\ yState.error /= Null
    /\ yTimers = {}

\* C33: while the camera is disabled (isActive false), the detector reports no
\* phone, no clutter and no distracting item.
C33_DetectionsClearedOnDisable ==
    (yMounted /\ ~yIsActive) =>
        /\ ~yState.phoneDetected
        /\ ~yState.deskCluttered
        /\ yState.distractingItems = {}

\* C37: while the detector is active, at most one detection timer is pending
\* at any moment.
C37_OnePollChain ==
    (yMounted /\ yIsActive) => Cardinality(yTimers) <= 1

\* C26: at most one inference is in flight at any time, whatever ticks, effect
\* restarts and isActive toggles occur, and isDetectingRef is set exactly while
\* one is: it is clear again after every completion, failure and early return.
C26_OneInferenceAtATime ==
    /\ yInferences <= 1
    /\ yRefs.isDetectingRef <=> (yInferences = 1)

\* An inference is in flight and a tick is pending next to it: a detectObjects
\* call of a restarted loop found the inference running, returned, and its
\* tick rescheduled itself.
C26_Witness ==
    /\ yInferences = 1
    /\ yRefs.isDetectingRef
    /\ yTimers /= {}
    /\ yToggles = 3

\* C19: deskCluttered is true exactly when the detections at or above the
\* confidence threshold contain two or more distinct clutter labels, or a label
\* matching pizza, donut, cake or sandwich.  distractingItems holds the distinct
\* distracting labels of the same detections, and every clutter label is a
\* distracting one, so its clutter members are the distinct clutter labels.
C19_ClutterNeedsDistinctLabels ==
    yState.deskCluttered <=>
        \/ Cardinality({l \in yState.distractingItems :
                           MatchesAny(l, CLUTTER_LABELS)}) >= 2
        \/ \E l \in yState.distractingItems : MatchesAny(l, STRONG_FOOD_LABELS)

(***************************************************************************)
(* usePostureDetection                                                     *)
(***************************************************************************)

\* POSTURE_THRESHOLD = 0.6, in percent
POSTURE_THRESHOLD == 60

\* What one processed frame gives (lines 383-499): the two detection flags and
\* the combined score in percent; 50 when nothing is detected.
FrameResults ==
    {[processed |-> TRUE, faceDetected |-> TRUE, poseDetected |-> TRUE, combinedScore |-> 90],
     [processed |-> TRUE, faceDetected |-> TRUE, poseDetected |-> FALSE, combinedScore |-> 40],
     [processed |-> TRUE, faceDetected |-> FALSE, poseDetected |-> FALSE, combinedScore |-> 50]}

\* A frame that is not processed: less than UPDATE_INTERVAL_MS has passed
\* (line 380), or detectForVideo throws (line 504).
SkippedFrame ==
    [processed |-> FALSE, faceDetected |-> FALSE, poseDetected |-> FALSE, combinedScore |-> 0]

\* What a processFrame call meets.
FrameInputs == {SkippedFrame} \cup FrameResults

NoInit == [stage |-> "none", caller |-> 0]
EffectCaller == 0

PostureInit ==
    /\ pMounted = TRUE
    /\ enableProcessing = TRUE
    /\ pState = [postureScore |-> 100, isDistracted |-> FALSE, isUsingCamera |-> FALSE,
                 isCameraAvailable |-> FALSE, isLoading |-> FALSE, error |-> Null,
                 faceDetected |-> FALSE, poseDetected |-> FALSE]
    /\ pRefs = [faceLandmarkerRef |-> FALSE, poseLandmarkerRef |-> FALSE,
                isInitializingRef |-> FALSE, animationFrameRef |-> 0, streamRef |-> 0,
                videoRef |-> 0, canvasRef |-> FALSE, drawingUtilsRef |-> FALSE]
    /\ pRafs = {}
    /\ pLoopTimers = 0
    /\ pLiveStreams = {}
    /\ pInit = NoInit
    /\ pCalls = [c \in 1..MaxStarts |-> "none"]
    /\ pSwitches = 0

\* The hook's refs, state and pending callbacks as one value P that the hook's
\* functions take and return. en is enableProcessingRef.current.
PostureMachine ==
    [refs |-> pRefs, state |-> pState, rafs |-> pRafs, timers |-> pLoopTimers,
     live |-> pLiveStreams, init |-> pInit, en |-> enableProcessing]

PostureApply(P) ==
    /\ pRefs' = P.refs
    /\ pState' = P.state
    /\ pRafs' = P.rafs
    /\ pLoopTimers' = P.timers
    /\ pLiveStreams' = P.live
    /\ pInit' = P.init

\* setState(prev => ...): dropped once the component is unmounted
PSetState(P, new) == IF pMounted THEN [P EXCEPT !.state = new] ELSE P

\* The ids requestAnimationFrame hands out. A frame loop is started by a 100 ms
\* timeout of startCamera or by the mode-switch effect, which runs after a
\* startCamera or an enableProcessing change; stopCamera starts none.
RafIds == 1..(2 * MaxStarts + MaxModeSwitches + 1)

\* An animation-frame id that is neither pending nor held in animationFrameRef.
FreshRaf(P) ==
    CHOOSE i \in RafIds :
        /\ i /= P.refs.animationFrameRef
        /\ \A r \in P.rafs : r.id /= i

\* Variant of ScheduleProcessFrame that does not keep the id.
ScheduleProcessFrame_Untracked(P) ==
    [P EXCEPT !.rafs = @ \cup {[id |-> FreshRaf(P), fn |-> "processFrame"]}]

\* animationFrameRef.current = requestAnimationFrame(processFrame)
ScheduleProcessFrame(P) ==
    [P EXCEPT !.refs.animationFrameRef = FreshRaf(P),
              !.rafs = @ \cup {[id |-> FreshRaf(P), fn |-> "processFrame"]}]

\* requestAnimationFrame(startIfReady): the id is not kept
ScheduleStartIfReady(P) ==
    [P EXCEPT !.rafs = @ \cup {[id |-> FreshRaf(P), fn |-> "startIfReady"]}]

\* if (animationFrameRef.current) { cancelAnimationFrame(...); ... = null }
CancelAnimationFrame(P) ==
    IF P.refs.animationFrameRef /= 0
    THEN [P EXCEPT !.rafs = {r \in @ : r.id /= P.refs.animationFrameRef},
                   !.refs.animationFrameRef = 0]
    ELSE P

\* processFrame (lines 346-510). ready: videoRef.current.readyState >= 2.
ProcessFrame(P, ready, input) ==
    IF P.refs.videoRef = 0 \/ ~ready THEN ScheduleProcessFrame(P)
    ELSE IF ~P.en THEN ScheduleProcessFrame(P)
    ELSE IF ~P.refs.faceLandmarkerRef /\ ~P.refs.poseLandmarkerRef
    THEN ScheduleProcessFrame(P)
    ELSE IF ~input.processed \/ ~P.refs.faceLandmarkerRef \/ ~P.refs.poseLandmarkerRef
    THEN \* too early, or detectForVideo throws (also on a null landmarker)
         ScheduleProcessFrame(P)
    ELSE ScheduleProcessFrame(
             PSetState(P, [P.state EXCEPT
                 !.postureScore = input.combinedScore,
                 !.isDistracted = input.combinedScore < POSTURE_THRESHOLD,
                 !.faceDetected = input.faceDetected,
                 !.poseDetected = input.poseDetected]))

\* startIfReady (lines 318-327)
StartIfReady(P, ready, input) ==
    IF ~P.en THEN P
    ELSE IF P.refs.videoRef /= 0 /\ ready THEN ProcessFrame(P, ready, input)
    ELSE ScheduleStartIfReady(P)

\* initializeMediaPipe up to its first await (lines 191-207), called by caller
\* when it will not return at once.
BeginInit(P, caller) ==
    PSetState([P EXCEPT !.refs.isInitializingRef = TRUE,
                        !.init = [stage |-> "face", caller |-> caller]],
              [P.state EXCEPT !.isLoading = TRUE, !.error = Null])

\* The mode-switch effect (lines 515-572), run after a render in which
\* enableProcessing or state.isUsingCamera changed.
ModeSwitchEffect(P, ready, input) ==
    IF ~P.en
    THEN LET P1 == CancelAnimationFrame(P)
             P2 == [P1 EXCEPT !.refs.faceLandmarkerRef = FALSE,
                              !.refs.poseLandmarkerRef = FALSE,
                              !.refs.drawingUtilsRef = FALSE]
         IN PSetState(P2, [P2.state EXCEPT !.postureScore = 100, !.isDistracted = FALSE,
                                           !.faceDetected = FALSE, !.poseDetected = FALSE])
    ELSE IF /\ P.state.isUsingCamera
            /\ (~P.refs.faceLandmarkerRef \/ ~P.refs.poseLandmarkerRef)
            /\ ~P.refs.isInitializingRef
    THEN BeginInit(P, EffectCaller)
    ELSE IF P.state.isUsingCamera /\ P.refs.animationFrameRef = 0
    THEN ProcessFrame(P, ready, input)
    ELSE P

\* The effect runs only when one of its dependencies changed in the render.
AfterRender(P0, P, ready, input) ==
    IF P.state.isUsingCamera /= P0.state.isUsingCamera \/ P.en /= P0.en
    THEN ModeSwitchEffect(P, ready, input)
    ELSE P

\* Variant of stopCamera that toggles isUsingCamera instead of clearing it.
StopCameraBody_Toggle(P) ==
    LET P1 == CancelAnimationFrame(P)
        P2 == [P1 EXCEPT !.live = @ \ {P1.refs.streamRef},
                         !.refs.streamRef = 0,
                         !.refs.videoRef = 0,
                         !.refs.canvasRef = FALSE,
                         !.refs.drawingUtilsRef = FALSE]
    IN PSetState(P2, [P2.state EXCEPT !.isUsingCamera = ~@, !.postureScore = 100,
                                      !.isDistracted = FALSE, !.faceDetected = FALSE,
                                      !.poseDetected = FALSE])

\* stopCamera (lines 576-607)
StopCameraBody(P) ==
    LET P1 == CancelAnimationFrame(P)
        P2 == [P1 EXCEPT !.live = @ \ {P1.refs.streamRef},
                         !.refs.streamRef = 0,
                         !.refs.videoRef = 0,
                         !.refs.canvasRef = FALSE,
                         !.refs.drawingUtilsRef = FALSE]
    IN PSetState(P2, [P2.state EXCEPT !.isUsingCamera = FALSE, !.postureScore = 100,
                                      !.isDistracted = FALSE, !.faceDetected = FALSE,
                                      !.poseDetected = FALSE])

\* The hook after stopCamera is called on P and the render it causes
AfterStopCamera(P, ready, input) ==
    AfterRender(P, StopCameraBody(P), ready, input)

\* ---- actions of usePostureDetection ----

\* startCamera is called (lines 257-271): up to its first await.
PStartCamera(c) ==
    /\ pMounted
    /\ pCalls[c] = "none"
    /\ \A d \in 1..(c - 1) : pCalls[d] /= "none"
    /\ LET P0 == PostureMachine
           P1 == PSetState(P0, [P0.state EXCEPT !.isLoading = TRUE, !.error = Null])
           needInit == P1.en /\ (~P1.refs.faceLandmarkerRef \/ ~P1.refs.poseLandmarkerRef)
       IN IF needInit /\ P1.refs.isInitializingRef
          THEN \* initializeMediaPipe returns false: startCamera returns false
               /\ PostureApply(P1)
               /\ pCalls' = [pCalls EXCEPT ![c] = "false"]
          ELSE IF needInit
          THEN /\ PostureApply(BeginInit(P1, c))
               /\ pCalls' = [pCalls EXCEPT ![c] = "init"]
          ELSE /\ PostureApply(P1)
               /\ pCalls' = [pCalls EXCEPT ![c] = "gum"]
    /\ UNCHANGED <<pMounted, enableProcessing, pSwitches>>
    /\ UNCHANGED postureOthers

\* initializeMediaPipe's catch block (lines 244-253)
InitFailed(P) ==
    PSetState([P EXCEPT !.refs.isInitializingRef = FALSE, !.init = NoInit],
              [P.state EXCEPT !.isLoading = FALSE,
                              !.error = "Failed to initialize posture detection"])

\* FilesetResolver and FaceLandmarker.createFromOptions settle (lines 207-225)
PInitFaceSettle(ok) ==
    /\ pInit.stage = "face"
    /\ LET P0 == PostureMachine
       IN IF ok
          THEN /\ PostureApply([P0 EXCEPT !.refs.faceLandmarkerRef = TRUE,
                                          !.init.stage = "pose"])
               /\ UNCHANGED pCalls
          ELSE /\ PostureApply(InitFailed(P0))
               /\ pCalls' = IF pInit.caller = EffectCaller THEN pCalls
                            ELSE [pCalls EXCEPT ![pInit.caller] = "false"]
    /\ UNCHANGED <<pMounted, enableProcessing, pSwitches>>
    /\ UNCHANGED postureOthers

\* PoseLandmarker.createFromOptions settles (lines 228-243), and the caller
\* goes on: startCamera to getUserMedia, the effect to processFrame().
PInitPoseSettle(ok, ready, input) ==
    /\ pInit.stage = "pose"
    /\ LET P0 == PostureMachine
           P1 == PSetState([P0 EXCEPT !.refs.poseLandmarkerRef = TRUE,
                                      !.refs.isInitializingRef = FALSE,
                                      !.init = NoInit],
                           [P0.state EXCEPT !.isLoading = FALSE])
       IN IF ~ok
          THEN /\ PostureApply(InitFailed(P0))
               /\ pCalls' = IF pInit.caller = EffectCaller THEN pCalls
                            ELSE [pCalls EXCEPT ![pInit.caller] = "false"]
          ELSE IF pInit.caller = EffectCaller
          THEN /\ PostureApply(ProcessFrame(P1, ready, input))
               /\ UNCHANGED pCalls
          ELSE /\ PostureApply(P1)
               /\ pCalls' = [pCalls EXCEPT ![pInit.caller] = "gum"]
    /\ UNCHANGED <<pMounted, enableProcessing, pSwitches>>
    /\ UNCHANGED postureOthers

\* startCamera's catch block (lines 333-342)
StartFailed(P) ==
    PSetState(P, [P.state EXCEPT !.isLoading = FALSE,
                                 !.error = "Camera access denied or unavailable",
                                 !.isCameraAvailable = FALSE])

\* getUserMedia settles for call c (lines 272-303); the stream of call c is c.
PGetUserMediaSettle(c, ok) ==
    /\ pCalls[c] = "gum"
    /\ LET P0 == PostureMachine
       IN IF ok
          THEN /\ PostureApply([P0 EXCEPT !.live = @ \cup {c},
                                          !.refs.streamRef = c,
                                          !.refs.videoRef = c,
                                          !.refs.canvasRef = TRUE,
                                          !.refs.drawingUtilsRef = TRUE])
               /\ pCalls' = [pCalls EXCEPT ![c] = "play"]
          ELSE /\ PostureApply(StartFailed(P0))
               /\ pCalls' = [pCalls EXCEPT ![c] = "false"]
    /\ UNCHANGED <<pMounted, enableProcessing, pSwitches>>
    /\ UNCHANGED postureOthers

\* video.play() settles for call c (lines 303-332), then the render and the
\* mode-switch effect.
PPlaySettle(c, ok, ready, input) ==
    /\ pCalls[c] = "play"
    /\ LET P0 == PostureMachine
           P1 == PSetState(P0, [P0.state EXCEPT !.isLoading = FALSE,
                                                !.isUsingCamera = TRUE,
                                                !.isCameraAvailable = TRUE])
           P2 == [P1 EXCEPT !.timers = @ + 1]
       IN IF ok
          THEN PostureApply(AfterRender(P0, P2, ready, input))
          ELSE PostureApply(StartFailed(P0))
    /\ pCalls' = [pCalls EXCEPT ![c] = IF ok THEN "true" ELSE "false"]
    /\ UNCHANGED <<pMounted, enableProcessing, pSwitches>>
    /\ UNCHANGED postureOthers

\* The 100 ms timeout of startCamera fires (lines 315-330).
PLoopTimerFire(ready, input) ==
    /\ pLoopTimers > 0
    /\ LET P0 == [PostureMachine EXCEPT !.timers = @ - 1]
       IN PostureApply(StartIfReady(P0, ready, input))
    /\ UNCHANGED <<pMounted, enableProcessing, pCalls, pSwitches>>
    /\ UNCHANGED postureOthers

\* The browser runs a pending animation-frame callback.
PAnimationFrame(id, ready, input) ==
    /\ \E r \in pRafs : r.id = id
    /\ LET r == CHOOSE q \in pRafs : q.id = id
           P0 == [PostureMachine EXCEPT !.rafs = @ \ {r}]
       IN IF r.fn = "processFrame"
          THEN PostureApply(ProcessFrame(P0, ready, input))
          ELSE PostureApply(StartIfReady(P0, ready, input))
    /\ UNCHANGED <<pMounted, enableProcessing, pCalls, pSwitches>>
    /\ UNCHANGED postureOthers

\* The caller invokes stopCamera (lines 576-607), then the render and the
\* mode-switch effect.
PStopCamera(ready, input) ==
    /\ pMounted
    /\ PostureApply(AfterStopCamera(PostureMachine, ready, input))
    /\ UNCHANGED <<pMounted, enableProcessing, pCalls, pSwitches>>
    /\ UNCHANGED postureOthers

\* The caller renders the hook with another enableProcessing (line 168), then
\* the mode-switch effect.
PSetEnableProcessing(b, ready, input) ==
    /\ pMounted
    /\ b /= enableProcessing
    /\ pSwitches < MaxModeSwitches
    /\ pSwitches' = pSwitches + 1
    /\ enableProcessing' = b
    /\ LET P0 == PostureMachine
       IN PostureApply(AfterRender(P0, [P0 EXCEPT !.en = b], ready, input))
    /\ UNCHANGED <<pMounted, pCalls>>
    /\ UNCHANGED postureOthers

\* The component unmounts: the cleanup of lines 610-622.
PUnmount ==
    /\ pMounted
    /\ pMounted' = FALSE
    /\ LET P1 == StopCameraBody(PostureMachine)
       IN \* the setState of stopCamera has no component left to update
          PostureApply([P1 EXCEPT !.refs.faceLandmarkerRef = FALSE,
                                  !.refs.poseLandmarkerRef = FALSE,
                                  !.state = pState])
    /\ UNCHANGED <<enableProcessing, pCalls, pSwitches>>
    /\ UNCHANGED postureOthers

NextPosture ==
    \/ \E c \in 1..MaxStarts : PStartCamera(c)
    \/ \E ok \in BOOLEAN : PInitFaceSettle(ok)
    \/ \E ok \in BOOLEAN, ready \in BOOLEAN, input \in FrameInputs :
           PInitPoseSettle(ok, ready, input)
    \/ \E c \in 1..MaxStarts, ok \in BOOLEAN : PGetUserMediaSettle(c, ok)
    \/ \E c \in 1..MaxStarts, ok \in BOOLEAN, ready \in BOOLEAN, input \in FrameInputs :
           PPlaySettle(c, ok, ready, input)
    \/ \E ready \in BOOLEAN, input \in FrameInputs : PLoopTimerFire(ready, input)
    \/ \E id \in RafIds, ready \in BOOLEAN, input \in FrameInputs :
           PAnimationFrame(id, ready, input)
    \/ \E ready \in BOOLEAN, input \in FrameInputs : PStopCamera(ready, input)
    \/ \E b \in BOOLEAN, ready \in BOOLEAN, input \in FrameInputs :
           PSetEnableProcessing(b, ready, input)
    \/ PUnmount

\* C38: while the camera is on, at most one processFrame callback is
\* scheduled, and it is the one animationFrameRef holds.
C38_OneFrameChain ==
    (pMounted /\ pState.isUsingCamera) =>
        \A r \in pRafs :
            r.fn = "processFrame" => r.id = pRefs.animationFrameRef

\* C27: while processing is disabled (the teardown effect has run) and no
\* model initialization is in flight, the hook holds neither a face nor a pose
\* landmarker.
C27_DisabledReleasesModels ==
    (pMounted /\ ~enableProcessing /\ pInit = NoInit) =>
        /\ ~pRefs.faceLandmarkerRef
        /\ ~pRefs.poseLandmarkerRef

\* ---- useSimulatedFallback and the signal the hook returns ----

\* Math.random() * 0.15 in percent: a value in [0, 15)
FallbackDrifts == {0, 14}

Max(a, b) == IF a > b THEN a ELSE b

\* Math.max(0, Math.min(1, x)), in percent
Clamp01(x) == Max(0, Min(100, x))

FallbackInit ==
    /\ fbPostureScore = 100
    /\ fbIsDistracted = FALSE

\* Variant of the updater that wraps around below 0.
FallbackScore_Wrap(prev, d) == (prev - d) % 101

\* The updater of setPostureScore (line 50)
FallbackScore(prev, d) == Clamp01(prev - d)

\* The 4 s interval of useSimulatedFallback (lines 45-57) ticks; the interval
\* exists while the hook is mounted with enabled = !state.isUsingCamera.
PFallbackTick(d) ==
    /\ pMounted
    /\ ~pState.isUsingCamera
    /\ LET next == FallbackScore(fbPostureScore, d)
       IN /\ fbPostureScore' = next
          /\ fbIsDistracted' = (next < POSTURE_THRESHOLD)
    /\ UNCHANGED fallbackOthers

\* Variant of the returned postureScore that is always the camera state's.
ExposedPostureScore_CameraState == pState.postureScore

\* What usePostureDetection returns (lines 624-627)
ExposedPostureScore ==
    IF pState.isUsingCamera THEN pState.postureScore ELSE fbPostureScore

ExposedIsDistracted ==
    IF pState.isUsingCamera THEN pState.isDistracted ELSE fbIsDistracted

\* usePostureDetection as Session calls it (Session.tsx calls the hook with no
\* argument, so enableProcessing stays true), with the fallback hook it contains.
NextSignal ==
    \/ \E c \in 1..MaxStarts : PStartCamera(c)
    \/ \E ok \in BOOLEAN : PInitFaceSettle(ok)
    \/ \E ok \in BOOLEAN, ready \in BOOLEAN, input \in FrameInputs :
           PInitPoseSettle(ok, ready, input)
    \/ \E c \in 1..MaxStarts, ok \in BOOLEAN : PGetUserMediaSettle(c, ok)
    \/ \E c \in 1..MaxStarts, ok \in BOOLEAN, ready \in BOOLEAN, input \in FrameInputs :
           PPlaySettle(c, ok, ready, input)
    \/ \E ready \in BOOLEAN, input \in FrameInputs : PLoopTimerFire(ready, input)
    \/ \E id \in RafIds, ready \in BOOLEAN, input \in FrameInputs :
           PAnimationFrame(id, ready, input)
    \/ \E ready \in BOOLEAN, input \in FrameInputs : PStopCamera(ready, input)
    \/ PUnmount
    \/ \E d \in FallbackDrifts : PFallbackTick(d)

(***************************************************************************)
(* useVisionPostureDetection: stopCamera                                   *)
(***************************************************************************)

\* The refs and state stopCamera of useVisionPostureDetection reads and
\* writes: intervalRef and streamRef (0: null), the video's srcObject
\* (0: null), and the hook state (postureScore in percent).
VisionStates ==
    [intervalRef : 0..1, streamRef : 0..1, srcObject : 0..1,
     state : [postureScore : {30, 80}, isDistracted : BOOLEAN, analysis : {"", "text"},
              isCameraOn : BOOLEAN]]

\* stopCamera of useVisionPostureDetection (lines 116-138); hasVideo:
\* videoRef.current is set.
VisionStopCamera(V, hasVideo) ==
    [V EXCEPT !.intervalRef = 0,
              !.streamRef = 0,
              !.srcObject = IF hasVideo THEN 0 ELSE @,
              !.state = [@ EXCEPT !.isCameraOn = FALSE, !.postureScore = 80,
                                  !.isDistracted = FALSE, !.analysis = ""]]

\* The video element exists while the hook is in use (part_005 line 33
\* creates it in the hook itself).
VideoAttached == TRUE

\* The state of useState (lines 16-23): the neutral values
VisionNeutral ==
    [postureScore |-> 80, isDistracted |-> FALSE, analysis |-> "", isCameraOn |-> FALSE]

VisionInit ==
    /\ vHook = [intervalRef |-> 0, streamRef |-> 0, srcObject |-> 0, state |-> VisionNeutral]
    /\ vStatus = [isLoading |-> FALSE, error |-> Null]
    /\ vTimers = {}
    /\ vRequests = 0
    /\ vCalls = [c \in 1..MaxVisionStarts |-> "none"]
    /\ vStopped = FALSE

\* A field of the response body: absent (undefined or null), or a value.
Absent == [present |-> FALSE, value |-> 0]
Present(v) == [present |-> TRUE, value |-> v]

\* The bodies analyze-posture can answer with: any field may be missing.
AnalyzeBodies ==
    [postureScore : {Present(30), Absent}, isDistracted : {Present(TRUE), Absent},
     analysis : {Present("text"), Absent}]

\* What supabase.functions.invoke('analyze-posture') can settle with: an error
\* result or an exception (ok false), or a body.
AnalyzeOutcomes == [ok : BOOLEAN, data : AnalyzeBodies]

\* a ?? b
Nullish(a, b) == IF a.present THEN a.value ELSE b

\* The updater of setState in analyzePosture (lines 72-77)
AnalysisUpdate(prev, data) ==
    [prev EXCEPT !.postureScore = Nullish(data.postureScore, @),
                 !.isDistracted = Nullish(data.isDistracted, @),
                 !.analysis = Nullish(data.analysis, @)]

\* startCamera is called (lines 83-87): up to await getUserMedia.
VStartCamera(c) ==
    /\ vCalls[c] = "none"
    /\ \A d \in 1..(c - 1) : vCalls[d] /= "none"
    /\ vCalls' = [vCalls EXCEPT ![c] = "gum"]
    /\ vStatus' = [isLoading |-> TRUE, error |-> Null]
    /\ vStopped' = FALSE
    /\ UNCHANGED <<vHook, vTimers, vRequests>>
    /\ UNCHANGED visionOthers

\* startCamera's catch block (lines 106-113)
VStartFailed(c) ==
    /\ vStatus' = [isLoading |-> FALSE, error |-> "Camera access denied"]
    /\ vCalls' = [vCalls EXCEPT ![c] = "failed"]

\* getUserMedia settles for call c (lines 87-95); the stream of call c is c.
VGetUserMediaSettle(c, ok) ==
    /\ vCalls[c] = "gum"
    /\ IF ok
       THEN /\ vHook' = [vHook EXCEPT !.streamRef = c,
                                      !.srcObject = IF VideoAttached THEN c ELSE @]
            /\ vCalls' = [vCalls EXCEPT ![c] = "play"]
            /\ UNCHANGED vStatus
       ELSE /\ VStartFailed(c)
            /\ UNCHANGED vHook
    /\ UNCHANGED <<vTimers, vRequests, vStopped>>
    /\ UNCHANGED visionOthers

\* video.play() settles for call c (lines 95-104): the interval of call c is
\* c, its timeout MaxVisionStarts + c.
VPlaySettle(c, ok) ==
    /\ vCalls[c] = "play"
    /\ IF ok
       THEN /\ vHook' = [vHook EXCEPT !.state.isCameraOn = TRUE, !.intervalRef = c]
            /\ vStatus' = [vStatus EXCEPT !.isLoading = FALSE]
            /\ vTimers' = vTimers \cup {[id |-> c, kind |-> "interval"],
                                        [id |-> MaxVisionStarts + c, kind |-> "timeout"]}
            /\ vCalls' = [vCalls EXCEPT ![c] = "done"]
       ELSE /\ VStartFailed(c)
            /\ UNCHANGED <<vHook, vTimers>>
    /\ UNCHANGED <<vRequests, vStopped>>
    /\ UNCHANGED visionOthers

\* A timer calls analyzePosture (lines 58-65): up to the await. captureFrame
\* gives a frame only when the video has a source and dimensions (ready).
VAnalyze(t, ready) ==
    /\ t \in vTimers
    /\ vTimers' = IF t.kind = "timeout" THEN vTimers \ {t} ELSE vTimers
    /\ IF VideoAttached /\ vHook.srcObject /= 0 /\ ready
       THEN /\ vRequests < MaxVisionRequests
            /\ vRequests' = vRequests + 1
       ELSE UNCHANGED vRequests
    /\ UNCHANGED <<vHook, vStatus, vCalls, vStopped>>
    /\ UNCHANGED visionOthers

\* The analyze-posture request settles (lines 67-80).
VAnalyzeSettle(o) ==
    /\ vRequests > 0
    /\ vRequests' = vRequests - 1
    /\ vHook' = IF ~o.ok THEN vHook
                ELSE [vHook EXCEPT !.state = AnalysisUpdate(@, o.data)]
    /\ UNCHANGED <<vStatus, vTimers, vCalls, vStopped>>
    /\ UNCHANGED visionOthers

\* The caller invokes stopCamera (lines 116-138).
VStopCamera ==
    /\ vHook' = VisionStopCamera(vHook, VideoAttached)
    /\ vTimers' = {t \in vTimers : ~(t.kind = "interval" /\ t.id = vHook.intervalRef)}
    /\ vStopped' = TRUE
    /\ UNCHANGED <<vStatus, vRequests, vCalls>>
    /\ UNCHANGED visionOthers

VisionTimers ==
    {[id |-> c, kind |-> "interval"] : c \in 1..MaxVisionStarts}
        \cup {[id |-> MaxVisionStarts + c, kind |-> "timeout"] : c \in 1..MaxVisionStarts}

NextVision ==
    \/ \E c \in 1..MaxVisionStarts : VStartCamera(c)
    \/ \E c \in 1..MaxVisionStarts, ok \in BOOLEAN : VGetUserMediaSettle(c, ok)
    \/ \E c \in 1..MaxVisionStarts, ok \in BOOLEAN : VPlaySettle(c, ok)
    \/ \E t \in VisionTimers, ready \in BOOLEAN : VAnalyze(t, ready)
    \/ \E o \in AnalyzeOutcomes : VAnalyzeSettle(o)
    \/ VStopCamera

\* C34: from a stopCamera call until the next startCamera call the state holds
\* the neutral values: postureScore 0.8, isDistracted false, analysis empty.
C34_NeutralAfterStop ==
    vStopped =>
        /\ vHook.state.postureScore = 80
        /\ ~vHook.state.isDistracted
        /\ vHook.state.analysis = ""

\* ---- claims about usePostureDetection ----

\* C9: once the component using the hook has unmounted, no media track of a
\* camera stream the hook obtained is live, also when the unmount came while
\* startCamera was still waiting for the models or for getUserMedia.
C9_NoLiveTrackAfterUnmount ==
    ~pMounted => pLiveStreams = {}

\* C10: when stopCamera returns, no processFrame callback is left scheduled.
C10_NoFrameLoopAfterStop ==
    [][(\E ready \in BOOLEAN, input \in FrameInputs : PStopCamera(ready, input)) =>
           \A r \in pRafs' : r.fn /= "processFrame"]_vars

\* A step in which stopCamera is called
StopCameraStep ==
    \E ready \in BOOLEAN, input \in FrameInputs : PStopCamera(ready, input)

\* C11: whenever stopCamera disables a running camera, the signal the hook
\* returns afterwards is postureScore = 1 and isDistracted = false.
C11_SignalResetByStop ==
    [][(pState.isUsingCamera /\ StopCameraStep) =>
           /\ ExposedPostureScore' = 100
           /\ ExposedIsDistracted' = FALSE]_vars

\* stopCamera of useVisionPostureDetection, called twice, leaves what one call leaves
VisionStopIdempotent ==
    \A V \in VisionStates, hasVideo \in BOOLEAN :
        VisionStopCamera(VisionStopCamera(V, hasVideo), hasVideo)
            = VisionStopCamera(V, hasVideo)

\* C12: from every state, a second stopCamera right after a first leaves the
\* hook state and the stream, video, canvas and animation-frame references as
\* the first call left them; the same for stopCamera of useVisionPostureDetection.
C12_StopCameraIdempotent ==
    /\ pMounted =>
           \A ready \in BOOLEAN, input \in FrameInputs :
               LET P1 == AfterStopCamera(PostureMachine, ready, input)
               IN AfterStopCamera(P1, ready, input) = P1
    /\ VisionStopIdempotent

\* The camera is on with a frame loop running, so the first stopCamera acts
C12_Witness ==
    /\ pMounted
    /\ pState.isUsingCamera
    /\ pState.postureScore < 100
    /\ pRefs.streamRef \in pLiveStreams
    /\ pRefs.animationFrameRef /= 0
    /\ \A ready \in BOOLEAN, input \in FrameInputs :
           LET P1 == AfterStopCamera(PostureMachine, ready, input)
           IN /\ P1 /= PostureMachine
              /\ P1.live = {}
              /\ AfterStopCamera(P1, ready, input) = P1

\* C31: every step changes the fallback score only while the camera is not
\* in use, to clamp(score - r, 0, 1) for some r in [0, 0.15], with isDistracted
\* the comparison of the new score with the threshold; the score never
\* increases and isDistracted, once true, stays true.
C31_FallbackDriftsDown ==
    /\ [](fbIsDistracted <=> (fbPostureScore < POSTURE_THRESHOLD))
    /\ [][/\ \E r \in 0..15 :
                fbPostureScore' = (IF fbPostureScore - r < 0 THEN 0
                                   ELSE IF fbPostureScore - r > 100 THEN 100
                                   ELSE fbPostureScore - r)
          /\ fbPostureScore' <= fbPostureScore
          /\ fbIsDistracted' = (fbPostureScore' < POSTURE_THRESHOLD)
          /\ fbIsDistracted => fbIsDistracted'
          /\ pState.isUsingCamera =>
                 (fbPostureScore' = fbPostureScore /\ fbIsDistracted' = fbIsDistracted)]_vars

\* The fallback has drifted down to the lower bound and was clamped there.
C31_Witness ==
    /\ ~pState.isUsingCamera
    /\ fbPostureScore = 0
    /\ fbIsDistracted

\* C25: when getUserMedia rejects, startCamera resolves to false, isLoading
\* is false after the catch block, and with the camera off before, it is off
\* after and the hook returns the fallback's postureScore and isDistracted.
\* (After an unmount the call still resolves to false, and there is no state
\* left to observe.)
C25_DenialFallsBack ==
    [][\A c \in 1..MaxStarts :
          (pCalls[c] = "gum" /\ pCalls'[c] /= "gum" /\ pLiveStreams' = pLiveStreams) =>
              /\ pCalls'[c] = "false"
              /\ pMounted =>
                     /\ pState'.isLoading = FALSE
                     /\ ~pState.isUsingCamera =>
                            /\ ~pState'.isUsingCamera
                            /\ ExposedPostureScore' = fbPostureScore'
                            /\ ExposedIsDistracted' = fbIsDistracted']_vars

\* getUserMedia was rejected: startCamera resolved to false with the error
\* set, no stream was opened, and the signal is the fallback's, which has
\* drifted.
C25_Witness ==
    /\ pCalls[1] = "false"
    /\ pState.error = "Camera access denied or unavailable"
    /\ pLiveStreams = {}
    /\ ~pState.isLoading
    /\ ~pState.isUsingCamera
    /\ fbPostureScore < 100
    /\ ExposedPostureScore = fbPostureScore

(***************************************************************************)
(* SessionProvider (SessionContext.tsx): the state shared by the pages     *)
(*                                                                         *)
(* Focus scores are in percent.  Math.pow(score, 1.5) is irrational on     *)
(* most scores; the samples the model draws are the squares of tenths      *)
(* (0, 0.01, 0.04, ..., 0.81, 1), on which it is the cube of the root, an  *)
(* exact number of thousandths.  An average is kept as a fraction.         *)
(***************************************************************************)

StudyGoals == {"reading", "problem-solving", "memorization"}
EnergyLevels == {"low", "medium", "high"}

\* The focus-score samples the model draws: (k/10)^2 in percent
FocusSamples == {k * k : k \in 0..10}

\* The square root of a sample, in tenths
RootOf(score) == CHOOSE k \in 0..10 : k * k = score

\* Variant of the weighting that squares the score, in thousandths.
HarshScore_Squared(score) == (score * score) \div 10

\* Math.pow(score, 1.5) (line 38), in thousandths
HarshScore(score) == RootOf(score) * RootOf(score) * RootOf(score)

RECURSIVE SumSeq(_)
SumSeq(q) == IF q = <<>> THEN 0 ELSE q[1] + SumSeq(Tail(q))

\* calculateAverageFocus (lines 31-43): the fraction num / den
CalculateAverageFocus(scores) ==
    IF Len(scores) = 0 THEN [num |-> 0, den |-> 1]
    ELSE LET harshScores == [i \in 1..Len(scores) |-> HarshScore(scores[i])]
             sum == SumSeq(harshScores)
         IN [num |-> sum, den |-> 1000 * Len(harshScores)]

\* The useState values of the provider (lines 24-28)
ContextInitial ==
    [studyGoal |-> Null, energyLevel |-> Null, plannedDuration |-> 25,
     sessionDuration |-> 0, focusScores |-> <<>>]

CurrentContext ==
    [studyGoal |-> studyGoal, energyLevel |-> energyLevel,
     plannedDuration |-> plannedDuration, sessionDuration |-> sessionDuration,
     focusScores |-> focusScores]

\* Variant of resetSession that leaves the recorded duration alone.
ResetSession_KeepDuration(ctx) ==
    [ctx EXCEPT !.studyGoal = Null, !.energyLevel = Null, !.plannedDuration = 25,
                !.focusScores = <<>>]

\* resetSession (lines 51-57)
ResetSession(ctx) ==
    [ctx EXCEPT !.studyGoal = Null, !.energyLevel = Null, !.plannedDuration = 25,
                !.sessionDuration = 0, !.focusScores = <<>>]

\* The provider renders with new state (lines 45, 59-78)
ProviderRender(ctx) ==
    /\ studyGoal' = ctx.studyGoal
    /\ energyLevel' = ctx.energyLevel
    /\ plannedDuration' = ctx.plannedDuration
    /\ sessionDuration' = ctx.sessionDuration
    /\ focusScores' = ctx.focusScores
    /\ averageFocusScore' = CalculateAverageFocus(ctx.focusScores)

\* The provider before any page has written to it
ContextInit ==
    /\ studyGoal = Null
    /\ energyLevel = Null
    /\ focusScores = <<>>
    /\ averageFocusScore = CalculateAverageFocus(<<>>)

\* The provider after handleStart of the start page, with the page's defaults
\* for what the other components do not depend on
ContextStarted ==
    /\ studyGoal = "reading"
    /\ energyLevel = "medium"
    /\ focusScores = <<>>
    /\ averageFocusScore = CalculateAverageFocus(<<>>)

\* A consumer calls addFocusScore (lines 47-49) while the session view is shown
AddFocusScore(score) ==
    /\ route = "session"
    /\ Len(focusScores) < MaxSamples
    /\ ProviderRender([CurrentContext EXCEPT !.focusScores = Append(focusScores, score)])
    /\ UNCHANGED <<sMounted, secondsRemaining, elapsedSeconds, sessionComplete, flowLevel,
                   sIntervals, sTicks>>
    /\ UNCHANGED reflectionVars
    /\ UNCHANGED sessionOuter

NextContext == \E score \in FocusSamples : AddFocusScore(score)

(***************************************************************************)
(* Reflection (the view with the AI insight) and reflection-insights       *)
(***************************************************************************)

INSIGHT_ON_ERROR == "Great job completing your session! Keep building momentum."
INSIGHT_DEFAULT == "Great session! Keep up the focused work."
INSIGHT_ON_THROW == "Great job completing your session! Every focused minute counts."
EDGE_INSIGHT_DEFAULT == "Great job completing your session! Keep up the good work."
EDGE_INSIGHT_ON_CATCH ==
    "Great job completing your study session! Remember to take breaks and stay hydrated."

\* What the reflection-insights handler meets: whether the request body parses,
\* whether GROQ_API_KEY is set, how the fetch to the model ends, and what the
\* completion holds.
InsightEnvs ==
    [jsonOk : BOOLEAN, hasKey : BOOLEAN, fetch : {"throw", "429", "500", "200"},
     completion : {"invalid-json", "no-content", "blank-content", "sentence"}]

\* The catch block of the handler (lines 70-78)
InsightCatchResponse ==
    [status |-> 500, insight |-> EDGE_INSIGHT_ON_CATCH, error |-> "error message"]

\* data.choices?.[0]?.message?.content of a completion that parsed (line 64)
CompletionContent(completion) ==
    IF completion = "sentence" THEN "insight of the model"
    ELSE IF completion = "blank-content" THEN ""
    ELSE Undefined

\* The reflection-insights handler for a POST (lines 13-79): the response
ReflectionInsightsHandler(env) ==
    IF ~env.jsonOk \/ ~env.hasKey \/ env.fetch = "throw" THEN InsightCatchResponse
    ELSE IF env.fetch = "429"
    THEN [status |-> 429, insight |-> Undefined,
          error |-> "Rate limited. Please try again in a moment."]
    ELSE IF env.fetch = "500" THEN InsightCatchResponse
    ELSE IF env.completion = "invalid-json" THEN InsightCatchResponse
    ELSE LET content == CompletionContent(env.completion)
         IN [status |-> 200,
             insight |-> IF Truthy(content) THEN content ELSE EDGE_INSIGHT_DEFAULT,
             error |-> Undefined]

\* What supabase.functions.invoke gives fetchInsight for a response: an error
\* for a status outside 2xx, the parsed body otherwise.
InvokeResult(resp) ==
    IF resp.status \in 200..299
    THEN [kind |-> "data", insight |-> resp.insight, error |-> resp.error]
    ELSE [kind |-> "error", insight |-> Undefined, error |-> Undefined]

\* Every way the request of fetchInsight can settle: with the result of a
\* response of the handler, with a transport error, with a 2xx body that has no
\* insight field (with or without an error field), with a null body, or with
\* an exception.
InsightOutcomes ==
    {InvokeResult(ReflectionInsightsHandler(env)) : env \in InsightEnvs}
    \cup {[kind |-> "error", insight |-> Undefined, error |-> Undefined],
          [kind |-> "data", insight |-> Undefined, error |-> "error message"],
          [kind |-> "data", insight |-> Undefined, error |-> Undefined],
          [kind |-> "data", insight |-> "", error |-> ""],
          [kind |-> "null-data", insight |-> Undefined, error |-> Undefined],
          [kind |-> "throw", insight |-> Undefined, error |-> Undefined]}

\* Variant of fetchInsight that shows the body's insight field as it is.
SettledInsight_NoFallback(o) ==
    IF o.kind = "throw" \/ o.kind = "null-data" THEN INSIGHT_ON_THROW
    ELSE IF o.kind = "error" THEN INSIGHT_ON_ERROR
    ELSE o.insight

\* What fetchInsight passes to setAiInsight (lines 286-295); reading a field of
\* a null body throws inside the try block.
SettledInsight(o) ==
    IF o.kind = "throw" \/ o.kind = "null-data" THEN INSIGHT_ON_THROW
    ELSE IF o.kind = "error" THEN INSIGHT_ON_ERROR
    ELSE IF Truthy(o.insight) THEN o.insight
    ELSE IF Truthy(o.error) THEN o.error
    ELSE INSIGHT_DEFAULT

\* No Reflection is mounted
ReflectionUnmounted ==
    /\ aiInsight = Null
    /\ isLoadingInsight = FALSE
    /\ insightReq = "none"

\* Reflection mounts on the context ctx (lines 258-301): the redirect effect
\* leaves for the start page when there is no session data, otherwise
\* fetchInsight issues its request.
ReflectionMount(ctx) ==
    IF ~Truthy(ctx.studyGoal) \/ ctx.studyGoal = Null \/ ctx.sessionDuration = 0
    THEN /\ route' = "index"
         /\ aiInsight' = Null
         /\ isLoadingInsight' = FALSE
         /\ insightReq' = "none"
    ELSE /\ route' = "reflection"
         /\ aiInsight' = Null
         /\ isLoadingInsight' = TRUE
         /\ insightReq' = "pending"

(***************************************************************************)
(* Session: the session timer and the flow level                           *)
(***************************************************************************)

\* The durations the start page offers (Index.tsx durationOptions), and 0,
\* which Session treats as unlimited (line 591).
PlannedDurations == {0, 15, 25, 45, 60, 90, 120}

\* isUnlimited (line 591)
IsUnlimited == plannedDuration = 0

\* Variant of the flow-level effect with strict comparisons.
FlowLevelOf_Strict(elapsed) ==
    IF elapsed > 300 THEN "deep"
    ELSE IF elapsed > 120 THEN "flowing"
    ELSE "building"

\* The flow-level effect (lines 624-632)
FlowLevelOf(elapsed) ==
    IF elapsed >= 300 THEN "deep"
    ELSE IF elapsed >= 120 THEN "flowing"
    ELSE "building"

\* Variant of the countdown updater that completes one tick late.
CountDown_Late(s) ==
    [complete |-> s <= 0, next |-> IF s <= 0 THEN 0 ELSE s - 1]

\* Variant of the countdown updater that takes two seconds per tick.
CountDown_ByTwo(s) ==
    [complete |-> s <= 1, next |-> IF s <= 2 THEN 0 ELSE s - 2]

\* The updater of setSecondsRemaining in the timer (lines 610-616): whether it
\* calls setSessionComplete(true), and the value it returns.
CountDown(s) ==
    [complete |-> s <= 1, next |-> IF s <= 1 THEN 0 ELSE s - 1]

\* Variant of the elapsed-time updater that adds two.
CountUp_ByTwo(s) == s + 2

\* The updater of setElapsedSeconds in the timer (lines 607 and 617)
CountUp(s) == s + 1

\* Variant of the timer effect whose cleanup leaves the interval running.
TimerEffect_NoCleanup(intervals, wasComplete, complete) ==
    IF complete = wasComplete THEN intervals
    ELSE intervals + (IF complete THEN 0 ELSE 1)

\* The timer effect after a render (lines 601-621): when sessionComplete
\* changed, the cleanup of the previous run clears the interval that run
\* created, and the new run creates one unless the session is complete.
TimerEffect(intervals, wasComplete, complete) ==
    IF complete = wasComplete THEN intervals
    ELSE (intervals - (IF wasComplete THEN 0 ELSE 1)) + (IF complete THEN 0 ELSE 1)

\* The session view after its first render and effects (lines 481-486,
\* 594-632).
SessionInit ==
    /\ sMounted = TRUE
    /\ plannedDuration \in PlannedDurations
    /\ secondsRemaining = plannedDuration * 60
    /\ elapsedSeconds = 0
    /\ sessionComplete = FALSE
    /\ flowLevel = FlowLevelOf(0)
    /\ sIntervals = 1
    /\ sessionDuration = 0
    /\ sTicks = 0

\* The 1 s interval of the timer effect fires (lines 604-619); then the
\* render, the timer effect when sessionComplete changed (lines 601-621) and
\* the flow-level effect (lines 624-632).
SessionTick ==
    /\ sMounted
    /\ sIntervals > 0
    /\ IsUnlimited => elapsedSeconds < MaxUnlimitedSeconds
    /\ sTicks' = sTicks + 1
    /\ elapsedSeconds' = CountUp(elapsedSeconds)
    /\ IF IsUnlimited
       THEN UNCHANGED <<secondsRemaining, sessionComplete>>
       ELSE /\ secondsRemaining' = CountDown(secondsRemaining).next
            /\ sessionComplete' = (sessionComplete \/ CountDown(secondsRemaining).complete)
    /\ sIntervals' = TimerEffect(sIntervals, sessionComplete, sessionComplete')
    /\ flowLevel' = FlowLevelOf(elapsedSeconds')
    /\ UNCHANGED <<sMounted, plannedDuration, sessionDuration>>
    /\ UNCHANGED sessionOthers

\* handleEndSession (lines 641-644): the elapsed time goes to the context and
\* the view is left, which unmounts it and clears the interval (line 620);
\* Reflection mounts.
HandleEndSession ==
    /\ sMounted
    /\ ProviderRender([CurrentContext EXCEPT !.sessionDuration = elapsedSeconds])
    /\ ReflectionMount([CurrentContext EXCEPT !.sessionDuration = elapsedSeconds])
    /\ sMounted' = FALSE
    /\ sIntervals' = 0
    /\ UNCHANGED <<secondsRemaining, elapsedSeconds, sessionComplete, flowLevel, sTicks>>
    /\ UNCHANGED sessionOuter

NextSession ==
    \/ SessionTick
    \/ HandleEndSession

\* ---- claims about the session timer ----

\* C13: in a session of N > 0 minutes, after N*60 ticks sessionComplete is true
\* and secondsRemaining is 0; secondsRemaining is never negative; and once
\* sessionComplete is true it stays true and no tick changes secondsRemaining
\* or elapsedSeconds.
C13_CountdownCompletes ==
    /\ [](/\ secondsRemaining >= 0
          /\ (plannedDuration > 0 /\ sTicks = plannedDuration * 60) =>
                 (sessionComplete /\ secondsRemaining = 0))
    /\ [][sessionComplete =>
              /\ sessionComplete'
              /\ secondsRemaining' = secondsRemaining
              /\ elapsedSeconds' = elapsedSeconds]_vars

\* A 25 minute session has run its 1500 ticks
C13_Witness ==
    /\ plannedDuration = 25
    /\ sTicks = 1500
    /\ sessionComplete
    /\ secondsRemaining = 0
    /\ sIntervals = 0

C30_UnlimitedCountsUp ==
    /\ [](IsUnlimited =>
              /\ ~sessionComplete
              /\ elapsedSeconds = sTicks
              /\ sMounted => sIntervals = 1)
    /\ [][(IsUnlimited /\ sTicks' /= sTicks) =>
              /\ elapsedSeconds' = elapsedSeconds + 1
              /\ secondsRemaining' = secondsRemaining]_vars
    /\ [][(IsUnlimited /\ sMounted /\ ~sMounted') =>
              /\ sessionDuration' = elapsedSeconds
              /\ elapsedSeconds' = elapsedSeconds]_vars

\* An unlimited session ended by the user after 130 seconds
C30_Witness ==
    /\ plannedDuration = 0
    /\ ~sMounted
    /\ elapsedSeconds = 130
    /\ sessionDuration = 130
    /\ ~sessionComplete
    /\ route = "reflection"

\* C39: in a fixed-duration session elapsedSeconds + secondsRemaining is
\* plannedDuration * 60 in every state, the completed one included.
C39_ElapsedPlusRemaining ==
    plannedDuration > 0 =>
        elapsedSeconds + secondsRemaining = plannedDuration * 60

\* A 60 minute session has run to completion.
C39_Witness ==
    /\ plannedDuration = 60
    /\ sessionComplete
    /\ elapsedSeconds = 3600
    /\ secondsRemaining = 0

\* The order of the flow levels
FlowRank(level) ==
    CASE level = "building" -> 1
      [] level = "flowing" -> 2
      [] level = "deep" -> 3

\* C14: the flow level is building for elapsed < 120, flowing for
\* 120 <= elapsed < 300 and deep for elapsed >= 300; it only moves
\* building -> flowing -> deep and never leaves deep.
C14_FlowLevelByElapsed ==
    /\ [](/\ (elapsedSeconds < 120) => flowLevel = "building"
          /\ (elapsedSeconds >= 120 /\ elapsedSeconds < 300) => flowLevel = "flowing"
          /\ (elapsedSeconds >= 300) => flowLevel = "deep")
    /\ [][/\ FlowRank(flowLevel') >= FlowRank(flowLevel)
          /\ FlowRank(flowLevel') <= FlowRank(flowLevel) + 1
          /\ flowLevel = "deep" => flowLevel' = "deep"]_vars

\* A session that went through the three levels and is deep at 1000 s
C14_Witness ==
    /\ elapsedSeconds = 1000
    /\ sTicks = 1000
    /\ flowLevel = "deep"

(***************************************************************************)
(* usePostureDetection: the score of one processed frame                   *)
(*                                                                         *)
(* Landmark coordinates and visibilities are in tenths (0..10 for 0..1),   *)
(* angles in tenths of a degree, scores in thousandths (0..1000 for 0..1). *)
(* On these grids every product and quotient of the code is an integer, so *)
(* the operators compute the code's values exactly.                        *)
(***************************************************************************)

HEAD_TILT_MAX_DEGREES == 30
SHOULDER_TILT_MAX_DEGREES == 15

Abs(x) == IF x < 0 THEN -x ELSE x

\* Math.max(0, Math.min(1, x)), in thousandths
Clamp1000(x) == Max(0, Min(1000, x))

\* calculateHeadTilt (lines 63-88), in tenths of a degree
CalculateHeadTilt(lm) ==
    IF ~lm.complete THEN 0
    ELSE LET \* verticalTilt and horizontalRotation in twentieths, eyeSlope in tenths
             verticalTilt == Abs(2 * lm.noseTip.y - (lm.forehead.y + lm.chin.y))
             horizontalRotation == Abs(2 * lm.noseTip.x - (lm.leftEye.x + lm.rightEye.x))
             eyeSlope == Abs(lm.leftEye.y - lm.rightEye.y)
             \* combinedOffset * 200
             combinedOffset == 4 * verticalTilt + 3 * horizontalRotation + 6 * eyeSlope
             \* combinedOffset * 180 degrees, in tenths of a degree
             tiltDegrees == 9 * combinedOffset
         IN Min(tiltDegrees, 10 * HEAD_TILT_MAX_DEGREES)

\* calculateShoulderTilt (lines 91-109), in tenths of a degree
CalculateShoulderTilt(lm) ==
    IF ~lm.complete THEN 0
    ELSE IF ~(lm.leftShoulder.visibility > 5) \/ ~(lm.rightShoulder.visibility > 5) THEN 0
    ELSE LET shoulderTilt == Abs(lm.leftShoulder.y - lm.rightShoulder.y)
         IN Min(90 * shoulderTilt, 10 * SHOULDER_TILT_MAX_DEGREES)

\* Variant of calculatePosePosture that returns the score without the final clamp.
CalculatePosePosture_NoClamp(lm) ==
    IF ~lm.complete THEN 500
    ELSE LET shoulderTilt == Abs(lm.leftShoulder.y - lm.rightShoulder.y)
             s1 == IF 2 * shoulderTilt > 1 THEN 1000 - 200 * shoulderTilt ELSE 1000
             \* headForward in twentieths
             headForward == Abs((lm.leftEar.x + lm.rightEar.x)
                                - (lm.leftShoulder.x + lm.rightShoulder.x))
             s2 == IF lm.ears /\ headForward > 2 THEN s1 - 50 * headForward ELSE s1
             noseOffCenter == Abs(lm.nose.x - 5)
             s3 == IF noseOffCenter > 3 THEN s2 - 50 * (noseOffCenter - 3) ELSE s2
             s4 == IF lm.nose.y > 6 THEN s3 - 50 * (lm.nose.y - 6) ELSE s3
         IN s4

\* calculatePosePosture (lines 112-144), in thousandths
CalculatePosePosture(lm) ==
    IF ~lm.complete THEN 500
    ELSE LET shoulderTilt == Abs(lm.leftShoulder.y - lm.rightShoulder.y)
             s1 == IF 2 * shoulderTilt > 1 THEN 1000 - 200 * shoulderTilt ELSE 1000
             \* headForward in twentieths
             headForward == Abs((lm.leftEar.x + lm.rightEar.x)
                                - (lm.leftShoulder.x + lm.rightShoulder.x))
             s2 == IF lm.ears /\ headForward > 2 THEN s1 - 50 * headForward ELSE s1
             noseOffCenter == Abs(lm.nose.x - 5)
             s3 == IF noseOffCenter > 3 THEN s2 - 50 * (noseOffCenter - 3) ELSE s2
             s4 == IF lm.nose.y > 6 THEN s3 - 50 * (lm.nose.y - 6) ELSE s3
         IN Clamp1000(s4)

\* tiltToPostureScore (lines 147-150): tilt in tenths of a degree, result in
\* thousandths
TiltToPostureScore(tiltDegrees, maxDegrees) ==
    Clamp1000(1000 - (100 * tiltDegrees) \div maxDegrees)

\* faceScore of processFrame (lines 390-400)
FaceScore(face) ==
    IF face.detected
    THEN TiltToPostureScore(CalculateHeadTilt(face), HEAD_TILT_MAX_DEGREES)
    ELSE 500

\* poseScore of processFrame (lines 391, 410-418)
PoseScore(pose) ==
    IF pose.detected
    THEN LET shoulderScore ==
                 TiltToPostureScore(CalculateShoulderTilt(pose), SHOULDER_TILT_MAX_DEGREES)
             posePosture == CalculatePosePosture(pose)
         IN (4 * shoulderScore + 6 * posePosture) \div 10
    ELSE 500

\* Variant of the combined score that averages the two scores.
CombinedScore_Average(faceDetected, poseDetected, faceScore, poseScore) ==
    IF faceDetected /\ poseDetected THEN (5 * faceScore + 5 * poseScore) \div 10
    ELSE IF faceDetected THEN faceScore
    ELSE IF poseDetected THEN poseScore
    ELSE 500

\* Variant of the combined score whose default is the best score.
CombinedScore_DefaultGood(faceDetected, poseDetected, faceScore, poseScore) ==
    IF faceDetected /\ poseDetected THEN (4 * faceScore + 6 * poseScore) \div 10
    ELSE IF faceDetected THEN faceScore
    ELSE IF poseDetected THEN poseScore
    ELSE 1000

\* combinedScore of processFrame (lines 480-491)
CombinedScore(faceDetected, poseDetected, faceScore, poseScore) ==
    IF faceDetected /\ poseDetected THEN (4 * faceScore + 6 * poseScore) \div 10
    ELSE IF faceDetected THEN faceScore
    ELSE IF poseDetected THEN poseScore
    ELSE 500

\* The face landmarker's results the model draws from: no face, or the five
\* landmarks calculateHeadTilt reads (complete: all five are present).
NoFace ==
    [detected |-> FALSE, complete |-> FALSE,
     noseTip |-> [x |-> 0, y |-> 0], forehead |-> [y |-> 0], chin |-> [y |-> 0],
     leftEye |-> [x |-> 0, y |-> 0], rightEye |-> [x |-> 0, y |-> 0]]

FaceResults ==
    {NoFace} \cup
    [detected : {TRUE}, complete : BOOLEAN,
     noseTip : [x : {3, 5}, y : {5, 7, 10}], forehead : [y : {0, 3}], chin : [y : {7, 10}],
     leftEye : [x : {3, 4}, y : {3, 4, 10}], rightEye : [x : {6}, y : {4}]]

\* The pose landmarker's results the model draws from: no pose, or the
\* landmarks calculateShoulderTilt and calculatePosePosture read (complete:
\* the nose and both shoulders are present, otherwise none of the three is;
\* ears: both ears are present).
NoPose ==
    [detected |-> FALSE, complete |-> FALSE, ears |-> FALSE,
     nose |-> [x |-> 0, y |-> 0], leftEar |-> [x |-> 0], rightEar |-> [x |-> 0],
     leftShoulder |-> [x |-> 0, y |-> 0, visibility |-> 0],
     rightShoulder |-> [x |-> 0, y |-> 0, visibility |-> 0]]

PoseResults ==
    {NoPose} \cup
    [detected : {TRUE}, complete : BOOLEAN, ears : BOOLEAN,
     nose : [x : {5, 10}, y : {3, 8, 10}], leftEar : [x : {1, 4}], rightEar : [x : {6}],
     leftShoulder : [x : {3}, y : {6, 7, 10}, visibility : {2, 9}],
     rightShoulder : [x : {7}, y : {6}, visibility : {9}]]

\* A frame is about to be processed: the hook state is the initial one
\* (lines 156-165).
FrameInit ==
    /\ frInput \in [face : FaceResults, pose : PoseResults]
    /\ frDone = FALSE
    /\ frFaceScore = 500
    /\ frPoseScore = 500
    /\ frState = [postureScore |-> 1000, isDistracted |-> FALSE,
                  faceDetected |-> FALSE, poseDetected |-> FALSE]

\* The detection part of processFrame (lines 383-499) on the frame's results
EstimateFrame ==
    /\ ~frDone
    /\ frDone' = TRUE
    /\ LET faceDetected == frInput.face.detected
           poseDetected == frInput.pose.detected
           faceScore == FaceScore(frInput.face)
           poseScore == PoseScore(frInput.pose)
           combinedScore == CombinedScore(faceDetected, poseDetected, faceScore, poseScore)
       IN /\ frFaceScore' = faceScore
          /\ frPoseScore' = poseScore
          /\ frState' = [postureScore |-> combinedScore,
                         isDistracted |-> combinedScore < 10 * POSTURE_THRESHOLD,
                         faceDetected |-> faceDetected,
                         poseDetected |-> poseDetected]
    /\ UNCHANGED frInput
    /\ UNCHANGED frameOthers

NextFrame == EstimateFrame

\* No frame to process
FrameIdle == FrameInit /\ frInput = [face |-> NoFace, pose |-> NoPose]

(***************************************************************************)
(* Session: the fused focus signal; analyze-posture: the adjusted score    *)
(***************************************************************************)

\* Scores are in percent: 0.2 is 20, 0.15 is 15.
EstimatorScores == 0..100

DetectionModes == {"posture", "environment"}

\* What useYoloDetection can return together: a phone or a clutter label is
\* also a distracting item (PHONE_LABELS and CLUTTER_LABELS are part of
\* DISTRACTING_OBJECTS), and one setState writes all three.
DetectionSignals ==
    {d \in [phoneDetected : BOOLEAN, deskCluttered : BOOLEAN,
            distractingCount : 0..MaxDistractingItems] :
        (d.phoneDetected \/ d.deskCluttered) => d.distractingCount >= 1}

\* Variant of isDistracted in which two distracting items are enough.
FusedIsDistracted_TwoItems(mode, mpDistracted, d) ==
    IF mode = "posture"
    THEN mpDistracted \/ d.phoneDetected
    ELSE d.phoneDetected \/ d.deskCluttered \/ d.distractingCount >= 2

\* isDistracted of Session (lines 531-533)
FusedIsDistracted(mode, mpDistracted, d) ==
    IF mode = "posture"
    THEN mpDistracted \/ d.phoneDetected
    ELSE d.phoneDetected \/ d.deskCluttered \/ d.distractingCount > 2

\* Variant of postureScore in which posture mode ignores the phone.
FusedPostureScore_NoPhoneCap(mode, mpScore, d) ==
    IF mode = "environment"
    THEN LET s1 == IF d.phoneDetected THEN Min(mpScore, 30) ELSE mpScore
             s2 == IF d.deskCluttered THEN Min(s1, 40) ELSE s1
         IN IF d.distractingCount > 0
            THEN Max(20, s2 - d.distractingCount * 15)
            ELSE s2
    ELSE mpScore

\* postureScore of Session (lines 536-547)
FusedPostureScore(mode, mpScore, d) ==
    IF mode = "environment"
    THEN LET s1 == IF d.phoneDetected THEN Min(mpScore, 30) ELSE mpScore
             s2 == IF d.deskCluttered THEN Min(s1, 40) ELSE s1
         IN IF d.distractingCount > 0
            THEN Max(20, s2 - d.distractingCount * 15)
            ELSE s2
    ELSE IF d.phoneDetected THEN Min(mpScore, 40) ELSE mpScore

\* The detection values the render reads
CurrentDetection ==
    [phoneDetected |-> phoneDetected, deskCluttered |-> deskCluttered,
     distractingCount |-> distractingCount]

\* Session's first render: posture mode, the hooks' initial values
FusionInit ==
    /\ detectionMode = "posture"
    /\ mediaPipeScore = 100
    /\ mediaPipeDistracted = FALSE
    /\ phoneDetected = FALSE
    /\ deskCluttered = FALSE
    /\ distractingCount = 0
    /\ fusedPostureScore = 100
    /\ fusedIsDistracted = FALSE

\* A render of Session with the given inputs (lines 528-547)
FusionRender(mode, mpScore, mpDistracted, d) ==
    /\ detectionMode' = mode
    /\ mediaPipeScore' = mpScore
    /\ mediaPipeDistracted' = mpDistracted
    /\ phoneDetected' = d.phoneDetected
    /\ deskCluttered' = d.deskCluttered
    /\ distractingCount' = d.distractingCount
    /\ fusedPostureScore' = FusedPostureScore(mode, mpScore, d)
    /\ fusedIsDistracted' = FusedIsDistracted(mode, mpDistracted, d)

\* The user picks a detection mode (lines 786, 796)
SetDetectionMode(mode) ==
    /\ mode /= detectionMode
    /\ FusionRender(mode, mediaPipeScore, mediaPipeDistracted, CurrentDetection)
    /\ UNCHANGED fusionOthers

\* usePostureDetection returns a new score; its isDistracted is score < 0.6
\* both from the camera (line 496) and from the fallback (line 51).
EstimatorSignal(score) ==
    /\ score /= mediaPipeScore
    /\ FusionRender(detectionMode, score, score < POSTURE_THRESHOLD, CurrentDetection)
    /\ UNCHANGED fusionOthers

\* useYoloDetection returns a new detection result
DetectionSignal(d) ==
    /\ d /= CurrentDetection
    /\ FusionRender(detectionMode, mediaPipeScore, mediaPipeDistracted, d)
    /\ UNCHANGED fusionOthers

NextFusion ==
    \/ \E mode \in DetectionModes : SetDetectionMode(mode)
    \/ \E score \in EstimatorScores : EstimatorSignal(score)
    \/ \E d \in DetectionSignals : DetectionSignal(d)

\* The JSON object analyze-posture parses from the model's answer (lines
\* 187-202); postureScore 0 stands for every falsy value, a missing one too.
AnalyzeResults ==
    [postureScore : EstimatorScores, isDistracted : BOOLEAN, phoneDetected : BOOLEAN,
     lookingDown : BOOLEAN, deskCluttered : BOOLEAN]

\* adjustedPostureScore of analyze-posture (lines 211-218) as it is returned
\* (line 241)
AdjustedPostureScore(r) ==
    LET s0 == IF r.postureScore = 0 THEN 70 ELSE r.postureScore
        s1 == IF r.phoneDetected THEN Min(s0, 40) ELSE s0
        s2 == IF r.lookingDown /\ r.deskCluttered THEN Min(s1, 50) ELSE s1
    IN Clamp01(s2)

\* ---- claims about the fused focus signal ----

\* analyze-posture returns at most 0.4 when the parsed result has phoneDetected
AnalyzePhoneCap ==
    \A r \in AnalyzeResults : r.phoneDetected => AdjustedPostureScore(r) <= 40

\* C15: whenever phoneDetected is true the fused postureScore is at most 0.4,
\* in both detection modes and for every estimator score, deskCluttered and
\* number of distracting items; the same for the score analyze-posture returns.
C15_PhoneCapsScore ==
    /\ phoneDetected => fusedPostureScore <= 40
    /\ AnalyzePhoneCap

\* The estimator reports 0.9 and a phone is seen
C15_Witness ==
    /\ phoneDetected
    /\ mediaPipeScore = 90
    /\ fusedPostureScore <= 40

\* C16: the fused postureScore of Session is never greater than the estimator's
\* own score.
C16_AdjustmentsMonotone ==
    fusedPostureScore <= mediaPipeScore

\* C17: the fused isDistracted is a function of the current inputs: estimator
\* isDistracted or phoneDetected in posture mode; phoneDetected or deskCluttered
\* or more than 2 distracting items in environment mode.
C17_IsDistractedOfInputs ==
    /\ detectionMode = "posture" =>
           fusedIsDistracted = (mediaPipeDistracted \/ phoneDetected)
    /\ detectionMode = "environment" =>
           fusedIsDistracted = (phoneDetected \/ deskCluttered \/ distractingCount > 2)

\* Environment mode, three distracting items that are neither phone nor clutter
C17_Witness ==
    /\ detectionMode = "environment"
    /\ ~phoneDetected
    /\ ~deskCluttered
    /\ distractingCount = 3
    /\ ~mediaPipeDistracted
    /\ fusedIsDistracted

\* ---- Claims about the score of a frame ----

\* Every value the fallback can move to from a score in [0,1], for every
\* Math.random() * 0.15, is in [0,1].
FallbackInUnitRange ==
    \A prev \in 0..100, d \in 0..14 : FallbackScore(prev, d) \in 0..100

\* Every fused score computed from an exposed score in [0,1], in either mode
\* and for every detector output, is in [0,1].
FusedInUnitRange ==
    \A mode \in DetectionModes, mpScore \in 0..100, d \in DetectionSignals :
        FusedPostureScore(mode, mpScore, d) \in 0..100

\* C18: the postureScore the estimator writes for a frame (with the face and
\* pose scores it is made of), the score of the simulated fallback, the score
\* the hook exposes and the fused session score are all in [0,1], for all
\* landmark inputs and all detector outputs.
C18_ScoresInUnitRange ==
    /\ frState.postureScore \in 0..1000
    /\ frFaceScore \in 0..1000
    /\ frPoseScore \in 0..1000
    /\ fbPostureScore \in 0..100
    /\ ExposedPostureScore \in 0..100
    /\ fusedPostureScore \in 0..100
    /\ FallbackInUnitRange
    /\ FusedInUnitRange

\* A frame with only a pose, whose deductions go below zero, has been
\* processed and scored 0.
C18_Witness ==
    /\ frDone
    /\ ~frInput.face.detected
    /\ frInput.pose.detected
    /\ frInput.pose.complete
    /\ frInput.pose.nose.y = 10
    /\ Abs(frInput.pose.leftShoulder.y - frInput.pose.rightShoulder.y) = 4
    /\ frState.postureScore = 0

\* C20: for every processed frame the score written is 0.4 * faceScore +
\* 0.6 * poseScore when both a face and a pose are detected, the face score
\* alone or the pose score alone when only one is, and 0.5 when neither is;
\* and the isDistracted written with it equals (score < 0.6).
C20_CombinedScoreOfFrame ==
    frDone =>
        LET face == frInput.face.detected
            pose == frInput.pose.detected
            score == frState.postureScore
        IN /\ (face /\ pose) => 10 * score = 4 * frFaceScore + 6 * frPoseScore
           /\ (face /\ ~pose) => score = frFaceScore
           /\ (~face /\ pose) => score = frPoseScore
           /\ (~face /\ ~pose) => score = 500
           /\ frState.isDistracted = (score < 600)
           /\ frState.faceDetected = face
           /\ frState.poseDetected = pose

\* A frame with a face scoring 1 and a pose scoring 0.46 has been processed:
\* the score is 0.676 and isDistracted is false, although the pose alone is
\* below the threshold.
C20_Witness ==
    /\ frDone
    /\ frInput.face.detected
    /\ frInput.pose.detected
    /\ frFaceScore = 1000
    /\ frPoseScore < 600
    /\ frState.postureScore >= 600
    /\ ~frState.isDistracted

DurationOptions == {15, 25, 45, 60, 90, 120}

\* No Session is mounted: the start page is shown
SessionUnmounted ==
    /\ sMounted = FALSE
    /\ plannedDuration = 25
    /\ secondsRemaining = 0
    /\ elapsedSeconds = 0
    /\ sessionComplete = FALSE
    /\ flowLevel = FlowLevelOf(0)
    /\ sIntervals = 0
    /\ sessionDuration = 0
    /\ sTicks = 0

\* handleStart of Index (lines 150-157) with the selections made on the page;
\* Session mounts and runs its effects (lines 481-486, 594-632).
HandleStart(goal, energy, duration) ==
    /\ route = "index"
    /\ ProviderRender([CurrentContext EXCEPT !.studyGoal = goal, !.energyLevel = energy,
                                             !.plannedDuration = duration])
    /\ route' = "session"
    /\ sMounted' = TRUE
    /\ secondsRemaining' = duration * 60
    /\ elapsedSeconds' = 0
    /\ sessionComplete' = FALSE
    /\ flowLevel' = FlowLevelOf(0)
    /\ sIntervals' = 1
    /\ sTicks' = 0
    /\ UNCHANGED <<aiInsight, isLoadingInsight, insightReq>>
    /\ UNCHANGED sessionOuter

\* The timer of the session ticks, for the seconds the walk follows
FlowTick ==
    /\ route = "session"
    /\ elapsedSeconds < MaxFlowSeconds
    /\ SessionTick

\* The request of fetchInsight settles (lines 286-298)
InsightSettle(o) ==
    /\ route = "reflection"
    /\ insightReq = "pending"
    /\ aiInsight' = SettledInsight(o)
    /\ isLoadingInsight' = FALSE
    /\ insightReq' = "settled"
    /\ UNCHANGED <<route, contextVars, sessionVars>>
    /\ UNCHANGED sessionOuter

ReflectionButtons == {"Start Another Session", "Exit"}

\* handleStartAnother (lines 325-328) and handleExit (lines 330-333): both
\* call resetSession and navigate('/'); Reflection unmounts, and a request
\* still pending settles on an unmounted view.
HandleReflectionButton(button) ==
    /\ route = "reflection"
    /\ button \in ReflectionButtons
    /\ ProviderRender(ResetSession(CurrentContext))
    /\ route' = "index"
    /\ aiInsight' = Null
    /\ isLoadingInsight' = FALSE
    /\ insightReq' = "none"
    /\ UNCHANGED <<sMounted, secondsRemaining, elapsedSeconds, sessionComplete, flowLevel,
                   sIntervals, sTicks>>
    /\ UNCHANGED sessionOuter

NextApp ==
    \/ \E goal \in StudyGoals, energy \in EnergyLevels, duration \in DurationOptions :
           HandleStart(goal, energy, duration)
    \/ FlowTick
    \/ HandleEndSession
    \/ \E o \in InsightOutcomes : InsightSettle(o)
    \/ \E button \in ReflectionButtons : HandleReflectionButton(button)

\* ---- Claims about the session context and the reflection view ----

\* C21: when the user has ended a session that ran for a minute or more (any
\* sampling period of the focus score has passed by then), focusScores is not
\* empty.
C21_SamplesCollected ==
    (route = "reflection" /\ sessionDuration >= 60) => focusScores /= <<>>

ContextStates ==
    [studyGoal : StudyGoals \cup {Null}, energyLevel : EnergyLevels \cup {Null},
     plannedDuration : DurationOptions \cup {0}, sessionDuration : {0, 1, 1500},
     focusScores : SeqsUpTo({0, 25, 100}, 2)]

\* resetSession yields the initial state from every context state
ResetYieldsInitial == \A ctx \in ContextStates : ResetSession(ctx) = ContextInitial

\* C23: resetSession yields the initial state (studyGoal = null, energyLevel =
\* null, plannedDuration = 25, sessionDuration = 0, focusScores empty) from any
\* state; leaving the reflection view, by either button, leaves the context in
\* that state; and a session view never sees a recorded duration or samples of
\* an earlier session.
C23_ResetOnLeavingReflection ==
    /\ [](ResetYieldsInitial)
    /\ [][(route = "reflection" /\ route' = "index") =>
              /\ studyGoal' = Null
              /\ energyLevel' = Null
              /\ plannedDuration' = 25
              /\ sessionDuration' = 0
              /\ focusScores' = <<>>
              /\ averageFocusScore'.num = 0]_vars
    /\ [](route = "session" => (sessionDuration = 0 /\ focusScores = <<>>))

\* A session ran, was ended, its reflection was shown with a settled insight
\* or not, and a button of the reflection view has led back to the start page.
C23_Witness ==
    /\ route = "index"
    /\ ~sMounted
    /\ sTicks >= 1
    /\ studyGoal = Null
    /\ energyLevel = Null
    /\ plannedDuration = 25
    /\ sessionDuration = 0

\* C24: once the reflection-insights request has settled, in whatever way, the
\* view shows a non-empty insight and isLoadingInsight is false; while it is
\* pending isLoadingInsight is true; and the handler answers every request
\* with a response, with an insight in every 2xx one.
C24_InsightAlwaysShown ==
    /\ insightReq = "settled" =>
           /\ aiInsight \notin {"", Undefined, Null}
           /\ isLoadingInsight = FALSE
    /\ insightReq = "pending" => isLoadingInsight = TRUE
    /\ \A env \in InsightEnvs :
           LET resp == ReflectionInsightsHandler(env)
           IN /\ resp.status \in {200, 429, 500}
              /\ resp.status = 200 => resp.insight \notin {"", Undefined, Null}

\* The request settled with a 2xx body that has neither an insight nor an
\* error field, and the default sentence is shown.
C24_Witness ==
    /\ route = "reflection"
    /\ insightReq = "settled"
    /\ aiInsight = INSIGHT_DEFAULT
    /\ ~isLoadingInsight

\* A session of the default length, not yet ticking
SessionIdle ==
    /\ SessionInit
    /\ plannedDuration = 25
    /\ ContextStarted
    /\ route = "session"
    /\ ReflectionUnmounted

\* The nudge generator before its first effect, isDistracted false.
NudgeIdle == NudgeInit /\ isDistracted = FALSE

Init == FrameIdle /\ FusionInit /\ SessionIdle /\ FallbackInit /\ NudgeInit /\ EdgeInit /\ VisionInit /\ YoloInit /\ PostureInit

InitEdge == FrameIdle /\ FusionInit /\ SessionIdle /\ FallbackInit /\ NudgeIdle /\ EdgeInit /\ VisionInit /\ YoloInit /\ PostureInit

InitYolo == FrameIdle /\ FusionInit /\ SessionIdle /\ FallbackInit /\ NudgeIdle /\ EdgeInit /\ VisionInit /\ YoloInit /\ PostureInit

InitPosture == FrameIdle /\ FusionInit /\ SessionIdle /\ FallbackInit /\ NudgeIdle /\ EdgeInit /\ VisionInit /\ YoloInit /\ PostureInit

SpecNudge == Init /\ [][NextNudge]_vars

SpecNudgeDeps == Init /\ [][NextNudgeDeps]_vars

SpecEdge == InitEdge /\ [][NextEdge]_vars

SpecYolo == InitYolo /\ [][NextYolo]_vars

SpecPosture == InitPosture /\ [][NextPosture]_vars

SpecSignal == InitPosture /\ [][NextSignal]_vars

InitSession ==
    /\ ContextStarted /\ route = "session" /\ ReflectionUnmounted
    /\ FrameIdle /\ FusionInit /\ SessionInit /\ FallbackInit /\ NudgeIdle /\ EdgeInit /\ VisionInit /\ YoloInit /\ PostureInit

SpecSession == InitSession /\ [][NextSession]_vars

SpecFusion == InitPosture /\ [][NextFusion]_vars

InitFrame ==
    /\ FrameInit
    /\ FusionInit /\ SessionIdle /\ FallbackInit /\ NudgeIdle /\ EdgeInit /\ VisionInit /\ YoloInit
    /\ PostureInit

SpecFrame == InitFrame /\ [][NextFrame]_vars

SpecContext == InitPosture /\ [][NextContext]_vars

SpecVision == InitPosture /\ [][NextVision]_vars

InitApp ==
    /\ ContextInit /\ route = "index" /\ ReflectionUnmounted /\ SessionUnmounted
    /\ FrameIdle /\ FusionInit /\ FallbackInit /\ NudgeIdle /\ EdgeInit /\ VisionInit /\ YoloInit
    /\ PostureInit

SpecApp == InitApp /\ [][NextApp]_vars

=============================================================================
